---- MODULE Spec2Model ----
(***************************************************************************)
(* A model of colormath's conversion engine: the GraphConversionManager    *)
(* (registration of conversion functions, shortest-path lookup) and the    *)
(* convert_color executor of colormath/color_conversions.py.               *)
(***************************************************************************)
EXTENDS Integers, Sequences, FiniteSets, TLC

VARIABLES
    mode,                     \* which manager: "manager" = a GraphConversionManager() built by a caller,
                              \* "module" = the module-level _conversion_manager filled by the decorators
    registered_color_spaces,  \* ConversionManager.registered_color_spaces
    conversion_graph,         \* GraphConversionManager.conversion_graph (a networkx.DiGraph)
    func_attrs,               \* f.start_type / f.target_type set by color_conversion_function
    loaded,                   \* number of @color_conversion_function decorators already executed
    regs,                     \* number of direct add_type_conversion calls made so far
    ret,                      \* the last call a caller made on the manager, with its return value / exception
    color,                    \* the color object a caller holds (input of the next convert_color)
    call                      \* the last convert_color call: arguments, primitives invoked, outcome

vars == <<mode, registered_color_spaces, conversion_graph, func_attrs, loaded, regs, ret, color, call>>

mgrVars == <<mode, registered_color_spaces, conversion_graph, func_attrs, loaded, regs, ret>>

-----------------------------------------------------------------------------
(* Bounds *)

MaxRegs == 3

MaxAdaptations == 2

-----------------------------------------------------------------------------
(* Color classes *)

NoneV == "None"

Absent == "absent"

ColorTypes ==
    {"SpectralColor", "XYZColor", "xyYColor", "LabColor", "LCHabColor", "LuvColor",
     "LCHuvColor", "BaseRGBColor", "sRGBColor", "AdobeRGBColor", "HSLColor", "HSVColor",
     "CMYColor", "CMYKColor", "IPTColor"}

\* the classes for which issubclass(cls, BaseRGBColor) holds
RGBClasses == {"BaseRGBColor", "sRGBColor", "AdobeRGBColor"}

\* the classes a caller of a hand-built manager registers and looks up
CallerTypes == {"XYZColor", "BaseRGBColor", "sRGBColor", "HSVColor"}

\* the (start_type, target_type) pairs such a caller registers
CallerEdges ==
    { <<"XYZColor", "BaseRGBColor">>, <<"BaseRGBColor", "HSVColor">>,
      <<"XYZColor", "HSVColor">>, <<"XYZColor", "sRGBColor">>,
      <<"sRGBColor", "HSVColor">>, <<"HSVColor", "XYZColor">> }

\* the functions a caller of a hand-built manager registers
CallerFuncs == {"XYZ_to_RGB", "HSV_to_RGB"}

Range(s) == {s[i] : i \in DOMAIN s}

-----------------------------------------------------------------------------
(* ConversionManager / GraphConversionManager *)

_normalise_type_identity(color_type) == color_type

_normalise_type(color_type) ==
    IF color_type \in RGBClasses THEN "BaseRGBColor" ELSE color_type

EmptyDiGraph ==
    [ _node |-> {},
      _succ |-> [n \in ColorTypes |-> <<>>],
      _pred |-> [n \in ColorTypes |-> <<>>],
      data  |-> <<>> ]

\* DiGraph.add_edge with a conversion_function attribute, wrongly keeping the
\* attribute of an edge that already exists
add_edge_keep_first(G, u, v, f) ==
    [ _node |-> G._node \cup {u, v},
      _succ |-> [G._succ EXCEPT ![u] = IF v \in Range(@) THEN @ ELSE Append(@, v)],
      _pred |-> [G._pred EXCEPT ![v] = IF u \in Range(@) THEN @ ELSE Append(@, u)],
      data  |-> [e \in (DOMAIN G.data) \cup {<<u, v>>} |->
                    IF e \in DOMAIN G.data THEN G.data[e] ELSE f] ]

\* DiGraph.add_edge(u, v, conversion_function=f): the adjacency dicts keep
\* insertion order, an existing edge keeps its place and gets the new attribute
add_edge(G, u, v, f) ==
    [ _node |-> G._node \cup {u, v},
      _succ |-> [G._succ EXCEPT ![u] = IF v \in Range(@) THEN @ ELSE Append(@, v)],
      _pred |-> [G._pred EXCEPT ![v] = IF u \in Range(@) THEN @ ELSE Append(@, u)],
      data  |-> [e \in (DOMAIN G.data) \cup {<<u, v>>} |->
                    IF e = <<u, v>> THEN f ELSE G.data[e]] ]

\* one level of networkx's bidirectional breadth-first search: every node v of
\* this_level in order, every neighbour w of v in adjacency order
RECURSIVE _expand_level(_, _, _, _, _, _, _)
_expand_level(adj, this_level, i, j, mine, other, fringe) ==
    IF i > Len(this_level)
    THEN [found |-> FALSE, w |-> NoneV, mine |-> mine, fringe |-> fringe]
    ELSE IF j > Len(adj[this_level[i]])
    THEN _expand_level(adj, this_level, i + 1, 1, mine, other, fringe)
    ELSE LET v == this_level[i]
             w == adj[v][j]
             new == mine[w] = Absent
             mine2 == IF new THEN [mine EXCEPT ![w] = v] ELSE mine
             fringe2 == IF new THEN Append(fringe, w) ELSE fringe
         IN  IF other[w] # Absent
             THEN [found |-> TRUE, w |-> w, mine |-> mine2, fringe |-> fringe2]
             ELSE _expand_level(adj, this_level, i, j + 1, mine2, other, fringe2)

\* networkx _bidirectional_pred_succ: alternate forward and reverse levels, the
\* smaller fringe first
RECURSIVE _bidirectional_pred_succ(_, _, _, _, _)
_bidirectional_pred_succ(G, pred, succ, forward_fringe, reverse_fringe) ==
    IF forward_fringe = <<>> \/ reverse_fringe = <<>>
    THEN [exc |-> "NetworkXNoPath", pred |-> pred, succ |-> succ, w |-> NoneV]
    ELSE IF Len(forward_fringe) <= Len(reverse_fringe)
    THEN LET r == _expand_level(G._succ, forward_fringe, 1, 1, pred, succ, <<>>)
         IN  IF r.found
             THEN [exc |-> NoneV, pred |-> r.mine, succ |-> succ, w |-> r.w]
             ELSE _bidirectional_pred_succ(G, r.mine, succ, r.fringe, reverse_fringe)
    ELSE LET r == _expand_level(G._pred, reverse_fringe, 1, 1, succ, pred, <<>>)
         IN  IF r.found
             THEN [exc |-> NoneV, pred |-> pred, succ |-> r.mine, w |-> r.w]
             ELSE _bidirectional_pred_succ(G, pred, r.mine, forward_fringe, r.fringe)

RECURSIVE _walk_back(_, _)
_walk_back(pred, w) ==
    IF w = NoneV THEN <<>> ELSE Append(_walk_back(pred, pred[w]), w)

RECURSIVE _walk_on(_, _)
_walk_on(succ, w) ==
    IF w = NoneV THEN <<>> ELSE <<w>> \o _walk_on(succ, succ[w])

\* a depth-first walk along first successors: some path, not a shortest one
RECURSIVE _first_successor_walk(_, _, _, _)
_first_successor_walk(G, node, target, seen) ==
    IF node = target THEN <<node>>
    ELSE LET next == SelectSeq(G._succ[node], LAMBDA n : n \notin seen)
         IN  IF next = <<>> THEN <<>>
             ELSE LET rest == _first_successor_walk(G, next[1], target, seen \cup {next[1]})
                  IN  IF rest = <<>> THEN <<>> ELSE <<node>> \o rest

shortest_path_depth_first(G, source, target) ==
    IF source \notin G._node \/ target \notin G._node
    THEN [exc |-> "NodeNotFound", path |-> <<>>]
    ELSE LET p == _first_successor_walk(G, source, target, {source})
         IN  IF p = <<>> THEN [exc |-> "NetworkXNoPath", path |-> <<>>]
             ELSE [exc |-> NoneV, path |-> p]

\* networkx.shortest_path(G, source, target) for an unweighted graph
shortest_path(G, source, target) ==
    IF source \notin G._node \/ target \notin G._node
    THEN [exc |-> "NodeNotFound", path |-> <<>>]
    ELSE IF source = target
    THEN [exc |-> NoneV, path |-> <<source>>]
    ELSE LET r == _bidirectional_pred_succ(G,
                      [n \in ColorTypes |-> IF n = source THEN NoneV ELSE Absent],
                      [n \in ColorTypes |-> IF n = target THEN NoneV ELSE Absent],
                      <<source>>, <<target>>)
         IN  IF r.exc # NoneV
             THEN [exc |-> r.exc, path |-> <<>>]
             ELSE [exc |-> NoneV,
                   path |-> _walk_back(r.pred, r.w) \o _walk_on(r.succ, r.succ[r.w])]

\* the zip over the node path stopping one pair early
_find_shortest_path_partial(G, start_type, target_type) ==
    LET r == shortest_path(G, start_type, target_type)
    IN  IF r.exc # NoneV
        THEN [exc |-> r.exc, value |-> <<>>]
        ELSE [exc |-> NoneV,
              value |-> [i \in 1..(Len(r.path) - 2) |-> G.data[<<r.path[i], r.path[i + 1]>>]]]

\* the function list built while walking the node path from its end
_find_shortest_path_reversed(G, start_type, target_type) ==
    LET r == shortest_path(G, start_type, target_type)
    IN  IF r.exc # NoneV
        THEN [exc |-> r.exc, value |-> <<>>]
        ELSE [exc |-> NoneV,
              value |-> [i \in 1..(Len(r.path) - 1) |->
                            G.data[<<r.path[Len(r.path) - i], r.path[Len(r.path) - i + 1]>>]]]

_find_shortest_path(G, start_type, target_type) ==
    LET r == shortest_path(G, start_type, target_type)
    IN  IF r.exc # NoneV
        THEN [exc |-> r.exc, value |-> <<>>]
        ELSE [exc |-> NoneV,
              value |-> [i \in 1..(Len(r.path) - 1) |-> G.data[<<r.path[i], r.path[i + 1]>>]]]

\* get_conversion_path catching NetworkXNoPath only: an unknown node escapes
get_conversion_path_no_path_only(G, start_type, target_type) ==
    LET s == _normalise_type(start_type)
        t == _normalise_type(target_type)
        r == _find_shortest_path(G, s, t)
    IN  IF r.exc = "NetworkXNoPath"
        THEN [kind |-> "UndefinedConversionError", value |-> <<>>, args |-> <<s, t>>]
        ELSE IF r.exc # NoneV
        THEN [kind |-> r.exc, value |-> <<>>, args |-> <<>>]
        ELSE [kind |-> "return", value |-> r.value, args |-> <<>>]

\* GraphConversionManager.get_conversion_path: the returned list, or the
\* UndefinedConversionError with its two arguments
get_conversion_path(G, start_type, target_type) ==
    LET s == _normalise_type(start_type)
        t == _normalise_type(target_type)
        r == _find_shortest_path(G, s, t)
    IN  IF r.exc \in {"NetworkXNoPath", "NodeNotFound"}
        THEN [kind |-> "UndefinedConversionError", value |-> <<>>, args |-> <<s, t>>]
        ELSE [kind |-> "return", value |-> r.value, args |-> <<>>]

-----------------------------------------------------------------------------
(* The decorated conversion functions of color_conversions.py, in module order *)

\* the module with the IPT_to_XYZ function left undecorated
Registrations_without_IPT_to_XYZ ==
    << <<"SpectralColor", "XYZColor", "Spectral_to_XYZ">>,
       <<"LabColor", "LCHabColor", "Lab_to_LCHab">>,
       <<"LabColor", "XYZColor", "Lab_to_XYZ">>,
       <<"LuvColor", "LCHuvColor", "Luv_to_LCHuv">>,
       <<"LuvColor", "XYZColor", "Luv_to_XYZ">>,
       <<"LCHabColor", "LabColor", "LCHab_to_Lab">>,
       <<"LCHuvColor", "LuvColor", "LCHuv_to_Luv">>,
       <<"xyYColor", "XYZColor", "xyY_to_XYZ">>,
       <<"XYZColor", "xyYColor", "XYZ_to_xyY">>,
       <<"XYZColor", "LuvColor", "XYZ_to_Luv">>,
       <<"XYZColor", "LabColor", "XYZ_to_Lab">>,
       <<"XYZColor", "BaseRGBColor", "XYZ_to_RGB">>,
       <<"BaseRGBColor", "XYZColor", "RGB_to_XYZ">>,
       <<"BaseRGBColor", "HSVColor", "RGB_to_HSV">>,
       <<"BaseRGBColor", "HSLColor", "RGB_to_HSL">>,
       <<"HSVColor", "BaseRGBColor", "HSV_to_RGB">>,
       <<"HSLColor", "BaseRGBColor", "HSL_to_RGB">>,
       <<"BaseRGBColor", "CMYColor", "RGB_to_CMY">>,
       <<"CMYColor", "BaseRGBColor", "CMY_to_RGB">>,
       <<"CMYColor", "CMYKColor", "CMY_to_CMYK">>,
       <<"CMYKColor", "CMYColor", "CMYK_to_CMY">>,
       <<"XYZColor", "IPTColor", "XYZ_to_IPT">> >>

Registrations ==
    << <<"SpectralColor", "XYZColor", "Spectral_to_XYZ">>,
       <<"LabColor", "LCHabColor", "Lab_to_LCHab">>,
       <<"LabColor", "XYZColor", "Lab_to_XYZ">>,
       <<"LuvColor", "LCHuvColor", "Luv_to_LCHuv">>,
       <<"LuvColor", "XYZColor", "Luv_to_XYZ">>,
       <<"LCHabColor", "LabColor", "LCHab_to_Lab">>,
       <<"LCHuvColor", "LuvColor", "LCHuv_to_Luv">>,
       <<"xyYColor", "XYZColor", "xyY_to_XYZ">>,
       <<"XYZColor", "xyYColor", "XYZ_to_xyY">>,
       <<"XYZColor", "LuvColor", "XYZ_to_Luv">>,
       <<"XYZColor", "LabColor", "XYZ_to_Lab">>,
       <<"XYZColor", "BaseRGBColor", "XYZ_to_RGB">>,
       <<"BaseRGBColor", "XYZColor", "RGB_to_XYZ">>,
       <<"BaseRGBColor", "HSVColor", "RGB_to_HSV">>,
       <<"BaseRGBColor", "HSLColor", "RGB_to_HSL">>,
       <<"HSVColor", "BaseRGBColor", "HSV_to_RGB">>,
       <<"HSLColor", "BaseRGBColor", "HSL_to_RGB">>,
       <<"BaseRGBColor", "CMYColor", "RGB_to_CMY">>,
       <<"CMYColor", "BaseRGBColor", "CMY_to_RGB">>,
       <<"CMYColor", "CMYKColor", "CMY_to_CMYK">>,
       <<"CMYKColor", "CMYColor", "CMYK_to_CMY">>,
       <<"XYZColor", "IPTColor", "XYZ_to_IPT">>,
       <<"IPTColor", "XYZColor", "IPT_to_XYZ">> >>

FuncNames == {Registrations[i][3] : i \in DOMAIN Registrations}

\* _RGB_CONVERSION_DICT_TEMPLATE, the hand-written conversion lists of the RGB spaces
_RGB_CONVERSION_DICT_TEMPLATE ==
    [HSLColor |-> <<"RGB_to_HSL">>,
     HSVColor |-> <<"RGB_to_HSV">>,
     CMYColor |-> <<"RGB_to_CMY">>,
     CMYKColor |-> <<"RGB_to_CMY", "CMY_to_CMYK">>,
     XYZColor |-> <<"RGB_to_XYZ">>,
     xyYColor |-> <<"RGB_to_XYZ", "XYZ_to_xyY">>,
     LabColor |-> <<"RGB_to_XYZ", "XYZ_to_Lab">>,
     LCHabColor |-> <<"RGB_to_XYZ", "XYZ_to_Lab", "Lab_to_LCHab">>,
     LCHuvColor |-> <<"RGB_to_XYZ", "XYZ_to_Luv", "Luv_to_LCHuv">>,
     LuvColor |-> <<"RGB_to_XYZ", "XYZ_to_Luv">>,
     IPTColor |-> <<"RGB_to_XYZ", "XYZ_to_IPT">>]

NoAttrs == [f \in FuncNames |-> <<NoneV, NoneV>>]

NoRet ==
    [op |-> NoneV, start |-> NoneV, target |-> NoneV, func |-> NoneV,
     kind |-> NoneV, value |-> <<>>, args |-> <<>>]

NoColor == [cls |-> NoneV]

NoCall == [op |-> NoneV]

-----------------------------------------------------------------------------
(* Actions of the manager *)

InitManager ==
    /\ mode \in {"manager", "module"}
    /\ registered_color_spaces = {}
    /\ conversion_graph = EmptyDiGraph
    /\ func_attrs = NoAttrs
    /\ loaded = 0
    /\ regs = 0
    /\ ret = NoRet

\* manager.add_type_conversion(start_type, target_type, conversion_function)
add_type_conversion(start_type, target_type, conversion_function) ==
    /\ registered_color_spaces' = registered_color_spaces \cup {start_type, target_type}
    /\ conversion_graph' = add_edge(conversion_graph, start_type, target_type, conversion_function)
    /\ ret' = [NoRet EXCEPT !.op = "add_type_conversion", !.start = start_type,
                            !.target = target_type, !.func = conversion_function]

\* a caller registers a conversion on a manager it built
Register ==
    /\ mode = "manager"
    /\ regs < MaxRegs
    /\ \E e \in CallerEdges, f \in CallerFuncs :
           add_type_conversion(e[1], e[2], f)
    /\ regs' = regs + 1
    /\ UNCHANGED <<mode, func_attrs, loaded, color, call>>

\* module import reaches the next @color_conversion_function(start, target)
Decorate ==
    /\ mode = "module"
    /\ loaded < Len(Registrations)
    /\ LET d == Registrations[loaded + 1]
       IN  /\ func_attrs' = [func_attrs EXCEPT ![d[3]] = <<d[1], d[2]>>]
           /\ add_type_conversion(d[1], d[2], d[3])
    /\ loaded' = loaded + 1
    /\ UNCHANGED <<mode, regs, color, call>>

LookupTypes == IF mode = "manager" THEN CallerTypes ELSE ColorTypes

\* manager.get_conversion_path(start_type, target_type); the module-level
\* manager is visible to callers once the import has run every decorator
Lookup ==
    /\ mode = "module" => loaded = Len(Registrations)
    /\ \E s \in LookupTypes, t \in LookupTypes :
           LET r == get_conversion_path(conversion_graph, s, t)
           IN  ret' = [op |-> "get_conversion_path", start |-> s, target |-> t,
                       func |-> NoneV, kind |-> r.kind, value |-> r.value, args |-> r.args]
    /\ UNCHANGED <<mode, registered_color_spaces, conversion_graph, func_attrs, loaded,
                   regs, color, call>>

Init ==
    /\ InitManager
    /\ color = NoColor
    /\ call = NoCall

Next == Register \/ Decorate \/ Lookup

Spec == Init /\ [][Next]_vars

-----------------------------------------------------------------------------
(* Color objects and the conversion primitives *)

\* the classes a caller instantiates and names as target_cs
ConcreteClasses ==
    {"SpectralColor", "XYZColor", "LabColor", "sRGBColor", "AdobeRGBColor", "HSLColor",
     "HSVColor", "IPTColor"}

IlluminantClasses ==
    {"SpectralColor", "XYZColor", "xyYColor", "LabColor", "LCHabColor", "LuvColor",
     "LCHuvColor"}

\* the classes of the colors whose coordinates a caller overwrites
MalformedClasses == {"LabColor"}

\* the target_illuminant arguments a caller passes
TargetIlluminants == {"D50", "d65"}

\* the illuminants and observers a caller constructs colors with
Illuminants == {"d50", "d65"}

Observers == {"2", "10"}

\* the illuminants of color_constants.ILLUMINANTS, the same for both observers
KnownIlluminants == {"d50", "d55", "d65", "d75"}

\* str.lower() on the illuminant and color space names that occur
lower(s) ==
    CASE s = "D50" -> "d50"
      [] s = "D65" -> "d65"
      [] s = "ZZ" -> "zz"
      [] s = "XYZ" -> "xyz"
      [] s = "Lab" -> "lab"
      [] OTHER -> s

\* a color object as its constructor leaves it: no remembered RGB profile,
\* coordinates that are floats and have not been adapted
ColorObject(cls, illuminant, observer) ==
    [cls |-> cls, _through_rgb_type |-> NoneV, illuminant |-> illuminant,
     observer |-> observer, values |-> "float", adaptation |-> <<>>]

\* apply_chromatic_adaptation: the white points of both illuminants are looked
\* up in ILLUMINANTS[observer]; the result stands for the adapted coordinates
apply_chromatic_adaptation(orig_illum, targ_illum, observer) ==
    IF observer \notin {"2", "10"} \/ lower(orig_illum) \notin KnownIlluminants
          \/ lower(targ_illum) \notin KnownIlluminants
    THEN [exc |-> "KeyError", value |-> <<>>]
    ELSE [exc |-> NoneV, value |-> <<lower(orig_illum), lower(targ_illum), observer>>]

\* XYZColor.apply_adaptation that forgets to lower-case the new illuminant
apply_adaptation_verbatim(self, target_illuminant) ==
    IF self.illuminant # target_illuminant
    THEN LET r == apply_chromatic_adaptation(self.illuminant, target_illuminant, "2")
         IN  IF r.exc # NoneV
             THEN [exc |-> r.exc, obj |-> self]
             ELSE [exc |-> NoneV,
                   obj |-> [self EXCEPT !.adaptation = Append(@, r.value),
                                        !.illuminant = target_illuminant]]
    ELSE [exc |-> NoneV, obj |-> self]

\* XYZColor.apply_adaptation(target_illuminant): the object after the call
\* (the method changes it in place), or the exception of the adaptation; the
\* adaptation is the one color_conversions.apply_XYZ_transformation stood for,
\* colormath.chromatic_adaptation.apply_chromatic_adaptation with its default
\* observer
apply_adaptation(self, target_illuminant) ==
    IF self.illuminant # target_illuminant
    THEN LET r == apply_chromatic_adaptation(self.illuminant, target_illuminant, "2")
         IN  IF r.exc # NoneV
             THEN [exc |-> r.exc, obj |-> self]
             ELSE [exc |-> NoneV,
                   obj |-> [self EXCEPT !.adaptation = Append(@, r.value),
                                        !.illuminant = lower(target_illuminant)]]
    ELSE [exc |-> NoneV, obj |-> self]

\* sRGBColor.native_illuminant / AdobeRGBColor.native_illuminant
native_illuminant(rgb_type) == "d65"

\* the target_type a conversion function is decorated with
DeclaredTarget(func) ==
    LET i == CHOOSE k \in DOMAIN Registrations : Registrations[k][3] = func
    IN  Registrations[i][2]

\* the primitives with an XYZ_to_IPT that takes an XYZ color of any illuminant
ApplyPrimitive_unchecked_IPT(func, cobj, target_rgb, target_illuminant) ==
    CASE func = "XYZ_to_IPT" ->
            IF cobj.values # "float"
            THEN [exc |-> "TypeError", obj |-> cobj]
            ELSE [exc |-> NoneV, obj |-> ColorObject("IPTColor", NoneV, NoneV)]
      [] cobj.values # "float" ->
            \* the arithmetic on a coordinate that is None or a string
            [exc |-> "TypeError", obj |-> cobj]
      [] func \in {"XYZ_to_RGB", "HSV_to_RGB", "HSL_to_RGB", "CMY_to_RGB"} ->
            [exc |-> NoneV, obj |-> ColorObject(target_rgb, NoneV, NoneV)]
      [] func = "RGB_to_XYZ" ->
            apply_adaptation(
                ColorObject("XYZColor", lower(native_illuminant(cobj.cls)), "2"),
                IF target_illuminant = NoneV
                THEN native_illuminant(cobj.cls) ELSE target_illuminant)
      [] func = "IPT_to_XYZ" ->
            [exc |-> NoneV, obj |-> ColorObject("XYZColor", "d65", "2")]
      [] func \in {"RGB_to_HSV", "RGB_to_HSL", "RGB_to_CMY", "CMY_to_CMYK", "CMYK_to_CMY"} ->
            [exc |-> NoneV, obj |-> ColorObject(DeclaredTarget(func), NoneV, NoneV)]
      [] OTHER ->
            [exc |-> NoneV,
             obj |-> ColorObject(DeclaredTarget(func), cobj.illuminant, cobj.observer)]

\* the primitives building their result with the constructor's default observer
ApplyPrimitive_default_observer(func, cobj, target_rgb, target_illuminant) ==
    CASE func = "XYZ_to_IPT" ->
            IF cobj.illuminant # "d65" \/ cobj.observer # "2"
            THEN [exc |-> "ValueError", obj |-> cobj]
            ELSE IF cobj.values # "float"
            THEN [exc |-> "TypeError", obj |-> cobj]
            ELSE [exc |-> NoneV, obj |-> ColorObject("IPTColor", NoneV, NoneV)]
      [] cobj.values # "float" ->
            \* the arithmetic on a coordinate that is None or a string
            [exc |-> "TypeError", obj |-> cobj]
      [] func \in {"XYZ_to_RGB", "HSV_to_RGB", "HSL_to_RGB", "CMY_to_RGB"} ->
            [exc |-> NoneV, obj |-> ColorObject(target_rgb, NoneV, NoneV)]
      [] func = "RGB_to_XYZ" ->
            apply_adaptation(
                ColorObject("XYZColor", lower(native_illuminant(cobj.cls)), "2"),
                IF target_illuminant = NoneV
                THEN native_illuminant(cobj.cls) ELSE target_illuminant)
      [] func = "IPT_to_XYZ" ->
            [exc |-> NoneV, obj |-> ColorObject("XYZColor", "d65", "2")]
      [] func \in {"RGB_to_HSV", "RGB_to_HSL", "RGB_to_CMY", "CMY_to_CMYK", "CMYK_to_CMY"} ->
            [exc |-> NoneV, obj |-> ColorObject(DeclaredTarget(func), NoneV, NoneV)]
      [] OTHER ->
            [exc |-> NoneV,
             obj |-> ColorObject(DeclaredTarget(func), cobj.illuminant, "2")]

\* one primitive applied to cobj with the keyword arguments convert_color
\* passes: the color it returns, or the exception it raises
ApplyPrimitive(func, cobj, target_rgb, target_illuminant) ==
    CASE func = "XYZ_to_IPT" ->
            IF cobj.illuminant # "d65" \/ cobj.observer # "2"
            THEN [exc |-> "ValueError", obj |-> cobj]
            ELSE IF cobj.values # "float"
            THEN [exc |-> "TypeError", obj |-> cobj]
            ELSE [exc |-> NoneV, obj |-> ColorObject("IPTColor", NoneV, NoneV)]
      [] cobj.values # "float" ->
            \* the arithmetic on a coordinate that is None or a string
            [exc |-> "TypeError", obj |-> cobj]
      [] func \in {"XYZ_to_RGB", "HSV_to_RGB", "HSL_to_RGB", "CMY_to_RGB"} ->
            [exc |-> NoneV, obj |-> ColorObject(target_rgb, NoneV, NoneV)]
      [] func = "RGB_to_XYZ" ->
            apply_adaptation(
                ColorObject("XYZColor", lower(native_illuminant(cobj.cls)), "2"),
                IF target_illuminant = NoneV
                THEN native_illuminant(cobj.cls) ELSE target_illuminant)
      [] func = "IPT_to_XYZ" ->
            [exc |-> NoneV, obj |-> ColorObject("XYZColor", "d65", "2")]
      [] func \in {"RGB_to_HSV", "RGB_to_HSL", "RGB_to_CMY", "CMY_to_CMYK", "CMYK_to_CMY"} ->
            [exc |-> NoneV, obj |-> ColorObject(DeclaredTarget(func), NoneV, NoneV)]
      [] OTHER ->
            [exc |-> NoneV,
             obj |-> ColorObject(DeclaredTarget(func), cobj.illuminant, cobj.observer)]

\* the for loop of convert_color over the conversion path (each primitive's
\* result is bound once, as the loop variable new_color is)
RECURSIVE RunConversions(_, _, _, _, _, _)
RunConversions(conversions, i, new_color, target_rgb, target_illuminant, trace) ==
    IF i > Len(conversions)
    THEN [exc |-> NoneV, new_color |-> new_color, trace |-> trace]
    ELSE CHOOSE out \in
           { LET t == Append(trace, [func |-> conversions[i], cobj |-> new_color.cls,
                                     illuminant |-> new_color.illuminant,
                                     observer |-> new_color.observer,
                                     target_rgb |-> target_rgb,
                                     target_illuminant |-> target_illuminant,
                                     exc |-> r.exc])
             IN  IF r.exc # NoneV
                 THEN [exc |-> r.exc, new_color |-> new_color, trace |-> t]
                 ELSE RunConversions(conversions, i + 1, r.obj, target_rgb,
                                     target_illuminant, t)
             : r \in {ApplyPrimitive(conversions[i], new_color, target_rgb,
                                     target_illuminant)} } : TRUE

-----------------------------------------------------------------------------
(* The module-level _conversion_manager after the import *)

RECURSIVE LoadedGraph(_)
LoadedGraph(n) ==
    IF n = 0 THEN EmptyDiGraph
    ELSE add_edge(LoadedGraph(n - 1), Registrations[n][1], Registrations[n][2],
                  Registrations[n][3])

StrTarget == "'XYZColor'"

TargetInputs == ConcreteClasses \cup {StrTarget}

NoLookup == [kind |-> NoneV, value |-> <<>>, args |-> <<>>]

NoOutcome ==
    [kind |-> NoneV, new_color |-> NoColor, color_after |-> NoColor, same_object |-> FALSE,
     lookup |-> NoLookup, target_rgb |-> NoneV, trace |-> <<>>]

\* the outcome of a convert_color call that raises exc after the trace
Raised(exc, color_, lookup, target_rgb, trace) ==
    [kind |-> exc, new_color |-> NoColor, color_after |-> color_, same_object |-> FALSE,
     lookup |-> lookup, target_rgb |-> target_rgb, trace |-> trace]

\* convert_color swallowing a primitive's exception and returning what the
\* chain had produced so far
_convert_along_partial(path, color_, through, target_rgb, target_illuminant) ==
    IF path.kind # "return"
    THEN Raised(path.kind, color_, path, NoneV, <<>>)
    ELSE CHOOSE out \in
           { LET tagged == IF through # "sRGBColor"
                           THEN [run.new_color EXCEPT !._through_rgb_type = through]
                           ELSE run.new_color
             IN  [kind |-> "return", new_color |-> tagged,
                  color_after |-> IF path.value = <<>> THEN tagged ELSE color_,
                  same_object |-> path.value = <<>>,
                  lookup |-> path, target_rgb |-> target_rgb, trace |-> run.trace]
             : run \in {RunConversions(path.value, 1, color_, target_rgb,
                                       target_illuminant, <<>>)} } : TRUE

\* the part of convert_color after the path lookup: the loop, the tagging of
\* the result with a non-default through_rgb_type, the return
_convert_along(path, color_, through, target_rgb, target_illuminant) ==
    IF path.kind # "return"
    THEN Raised(path.kind, color_, path, NoneV, <<>>)
    ELSE CHOOSE out \in
           { IF run.exc # NoneV
             THEN Raised(run.exc, color_, path, target_rgb, run.trace)
             ELSE LET tagged == IF through # "sRGBColor"
                                THEN [run.new_color EXCEPT !._through_rgb_type = through]
                                ELSE run.new_color
                  IN  [kind |-> "return", new_color |-> tagged,
                       color_after |-> IF path.value = <<>> THEN tagged ELSE color_,
                       same_object |-> path.value = <<>>,
                       lookup |-> path, target_rgb |-> target_rgb, trace |-> run.trace]
             : run \in {RunConversions(path.value, 1, color_, target_rgb,
                                       target_illuminant, <<>>)} } : TRUE

\* convert_color that never consults the profile remembered on the color
convert_color_forgetful(G, color_, target_cs, through_rgb_type, target_illuminant) ==
    IF target_cs = StrTarget
    THEN Raised("ValueError", color_, NoLookup, NoneV, <<>>)
    ELSE LET through == IF target_cs \in RGBClasses THEN target_cs ELSE through_rgb_type
             target_rgb == through
         IN  CHOOSE out \in
               { _convert_along(path, color_, through, target_rgb, target_illuminant)
                 : path \in {get_conversion_path(G, color_.cls, target_cs)} } : TRUE

\* convert_color(color, target_cs, through_rgb_type, target_illuminant) on the
\* manager G: what it returns or raises, the primitives it invoked with their
\* arguments, and the state it leaves the input object in
convert_color(G, color_, target_cs, through_rgb_type, target_illuminant) ==
    IF target_cs = StrTarget
    THEN Raised("ValueError", color_, NoLookup, NoneV, <<>>)
    ELSE LET through == IF target_cs \in RGBClasses THEN target_cs ELSE through_rgb_type
             target_rgb == IF through # "sRGBColor" THEN through
                           ELSE IF color_._through_rgb_type # NoneV
                           THEN color_._through_rgb_type
                           ELSE through
         IN  CHOOSE out \in
               { _convert_along(path, color_, through, target_rgb, target_illuminant)
                 : path \in {get_conversion_path(G, color_.cls, target_cs)} } : TRUE

-----------------------------------------------------------------------------
(* Actions of a caller converting colors *)

InitConvert ==
    /\ mode = "module"
    /\ loaded = Len(Registrations)
    /\ regs = 0
    /\ conversion_graph = LoadedGraph(Len(Registrations))
    /\ registered_color_spaces = conversion_graph._node
    /\ func_attrs = [f \in FuncNames |->
                        LET i == CHOOSE k \in DOMAIN Registrations : Registrations[k][3] = f
                        IN  <<Registrations[i][1], Registrations[i][2]>>]
    /\ ret = NoRet
    /\ color = NoColor
    /\ call = NoCall

\* the caller constructs a color
Construct ==
    /\ \E cls \in ConcreteClasses :
           IF cls \in IlluminantClasses
           THEN \E il \in Illuminants, ob \in Observers : color' = ColorObject(cls, il, ob)
           ELSE color' = ColorObject(cls, NoneV, NoneV)
    /\ call' = NoCall
    /\ UNCHANGED mgrVars

\* the caller converts the color it holds and goes on with the result; `passed`
\* records whether through_rgb_type was given or left to its default
ConvertColor ==
    /\ color # NoColor
    /\ \E target_cs \in TargetInputs,
          passed \in {NoneV, "sRGBColor", "AdobeRGBColor"},
          target_illuminant \in {NoneV} \cup TargetIlluminants :
           LET through_rgb_type == IF passed = NoneV THEN "sRGBColor" ELSE passed
               r == convert_color(conversion_graph, color, target_cs, through_rgb_type,
                                  target_illuminant)
           IN  /\ call' = [op |-> "convert_color", color |-> color,
                           target_cs |-> target_cs, passed |-> passed,
                           target_illuminant |-> target_illuminant, out |-> r]
               /\ color' = IF r.kind = "return" THEN r.new_color ELSE r.color_after
    /\ UNCHANGED mgrVars

\* the caller assigns a coordinate attribute of the color it holds: None, or
\* a string that is no number
SetCoordinate ==
    /\ color # NoColor
    /\ color.cls \in MalformedClasses
    /\ \E v \in {"None", "str"} : color' = [color EXCEPT !.values = v]
    /\ call' = NoCall
    /\ UNCHANGED mgrVars

NextConvert == Construct \/ SetCoordinate \/ ConvertColor

SpecConvert == InitConvert /\ [][NextConvert]_vars

-----------------------------------------------------------------------------
(* Actions of a caller converting between the spaces that carry an illuminant *)

\* the caller constructs a color of a space that carries illuminant and observer
ConstructCarrying ==
    /\ \E cls \in IlluminantClasses, il \in Illuminants, ob \in Observers :
           color' = ColorObject(cls, il, ob)
    /\ call' = NoCall
    /\ UNCHANGED mgrVars

\* the caller converts the color it holds to such a space and goes on with the
\* result
ConvertWithin ==
    /\ color # NoColor
    /\ \E target_cs \in IlluminantClasses,
          passed \in {NoneV, "sRGBColor", "AdobeRGBColor"},
          target_illuminant \in {NoneV} \cup TargetIlluminants :
           LET through_rgb_type == IF passed = NoneV THEN "sRGBColor" ELSE passed
               r == convert_color(conversion_graph, color, target_cs, through_rgb_type,
                                  target_illuminant)
           IN  /\ call' = [op |-> "convert_color", color |-> color,
                           target_cs |-> target_cs, passed |-> passed,
                           target_illuminant |-> target_illuminant, out |-> r]
               /\ color' = IF r.kind = "return" THEN r.new_color ELSE r.color_after
    /\ UNCHANGED mgrVars

NextWithin == ConstructCarrying \/ ConvertWithin

SpecWithin == InitConvert /\ [][NextWithin]_vars

-----------------------------------------------------------------------------
(* The color classes of colormath/color_objects.py *)

\* the CONVERSIONS table of every color class
CONVERSIONS ==
    [ SpectralColor |->
        [ spectral |-> <<NoneV>>,
          xyz |-> <<"Spectral_to_XYZ">>,
          xyy |-> <<"Spectral_to_XYZ", "XYZ_to_xyY">>,
          lab |-> <<"Spectral_to_XYZ", "XYZ_to_Lab">>,
          lch |-> <<"Spectral_to_XYZ", "XYZ_to_Lab", "Lab_to_LCHab">>,
          luv |-> <<"Spectral_to_XYZ", "XYZ_to_Luv">>,
          rgb |-> <<"Spectral_to_XYZ", "XYZ_to_RGB">>,
          hsl |-> <<"Spectral_to_XYZ", "XYZ_to_RGB", "RGB_to_HSL">>,
          hsv |-> <<"Spectral_to_XYZ", "XYZ_to_RGB", "RGB_to_HSV">>,
          cmy |-> <<"Spectral_to_XYZ", "XYZ_to_RGB", "RGB_to_CMY">>,
          cmyk |-> <<"Spectral_to_XYZ", "XYZ_to_RGB", "RGB_to_CMY", "CMY_to_CMYK">> ],
      LabColor |->
        [ lab |-> <<NoneV>>,
          xyz |-> <<"Lab_to_XYZ">>,
          xyy |-> <<"Lab_to_XYZ", "XYZ_to_xyY">>,
          lchab |-> <<"Lab_to_LCHab">>,
          lchuv |-> <<"Lab_to_XYZ", "XYZ_to_Luv", "Luv_to_LCHuv">>,
          luv |-> <<"Lab_to_XYZ", "XYZ_to_Luv">>,
          rgb |-> <<"Lab_to_XYZ", "XYZ_to_RGB">>,
          hsl |-> <<"Lab_to_XYZ", "XYZ_to_RGB", "RGB_to_HSL">>,
          hsv |-> <<"Lab_to_XYZ", "XYZ_to_RGB", "RGB_to_HSV">>,
          cmy |-> <<"Lab_to_XYZ", "XYZ_to_RGB", "RGB_to_CMY">>,
          cmyk |-> <<"Lab_to_XYZ", "XYZ_to_RGB", "RGB_to_CMY", "CMY_to_CMYK">> ],
      LCHabColor |->
        [ lchab |-> <<NoneV>>,
          xyz |-> <<"LCHab_to_Lab", "Lab_to_XYZ">>,
          xyy |-> <<"LCHab_to_Lab", "Lab_to_XYZ", "XYZ_to_xyY">>,
          lab |-> <<"LCHab_to_Lab">>,
          lchuv |-> <<"LCHab_to_Lab", "Lab_to_XYZ", "XYZ_to_Luv", "Luv_to_LCHuv">>,
          luv |-> <<"LCHab_to_Lab", "Lab_to_XYZ", "XYZ_to_Luv">>,
          rgb |-> <<"LCHab_to_Lab", "Lab_to_XYZ", "XYZ_to_RGB">>,
          hsl |-> <<"LCHab_to_Lab", "Lab_to_XYZ", "XYZ_to_RGB", "RGB_to_HSL">>,
          hsv |-> <<"LCHab_to_Lab", "Lab_to_XYZ", "XYZ_to_RGB", "RGB_to_HSV">>,
          cmy |-> <<"LCHab_to_Lab", "Lab_to_XYZ", "XYZ_to_RGB", "RGB_to_CMY">>,
          cmyk |-> <<"LCHab_to_Lab", "Lab_to_XYZ", "XYZ_to_RGB", "RGB_to_CMY", "CMY_to_CMYK">> ],
      LCHuvColor |->
        [ lchuv |-> <<NoneV>>,
          xyz |-> <<"LCHuv_to_Luv", "Luv_to_XYZ">>,
          xyy |-> <<"LCHuv_to_Luv", "Luv_to_XYZ", "XYZ_to_xyY">>,
          lab |-> <<"LCHuv_to_Luv", "Luv_to_XYZ", "XYZ_to_Lab">>,
          luv |-> <<"LCHuv_to_Luv">>,
          lchab |-> <<"LCHuv_to_Luv", "Luv_to_XYZ", "XYZ_to_Lab", "Lab_to_LCHab">>,
          rgb |-> <<"LCHuv_to_Luv", "Luv_to_XYZ", "XYZ_to_RGB">>,
          hsl |-> <<"LCHuv_to_Luv", "Luv_to_XYZ", "XYZ_to_RGB", "RGB_to_HSL">>,
          hsv |-> <<"LCHuv_to_Luv", "Luv_to_XYZ", "XYZ_to_RGB", "RGB_to_HSV">>,
          cmy |-> <<"LCHuv_to_Luv", "Luv_to_XYZ", "XYZ_to_RGB", "RGB_to_CMY">>,
          cmyk |-> <<"LCHuv_to_Luv", "Luv_to_XYZ", "XYZ_to_RGB", "RGB_to_CMY", "CMY_to_CMYK">> ],
      LuvColor |->
        [ luv |-> <<NoneV>>,
          xyz |-> <<"Luv_to_XYZ">>,
          xyy |-> <<"Luv_to_XYZ", "XYZ_to_xyY">>,
          lab |-> <<"Luv_to_XYZ", "XYZ_to_Lab">>,
          lchab |-> <<"Luv_to_XYZ", "XYZ_to_Lab", "Lab_to_LCHab">>,
          lchuv |-> <<"Luv_to_LCHuv">>,
          rgb |-> <<"Luv_to_XYZ", "XYZ_to_RGB">>,
          hsl |-> <<"Luv_to_XYZ", "XYZ_to_RGB", "RGB_to_HSL">>,
          hsv |-> <<"Luv_to_XYZ", "XYZ_to_RGB", "RGB_to_HSV">>,
          cmy |-> <<"Luv_to_XYZ", "XYZ_to_RGB", "RGB_to_CMY">>,
          cmyk |-> <<"Luv_to_XYZ", "XYZ_to_RGB", "RGB_to_CMY", "CMY_to_CMYK">> ],
      XYZColor |->
        [ xyz |-> <<NoneV>>,
          xyy |-> <<"XYZ_to_xyY">>,
          lab |-> <<"XYZ_to_Lab">>,
          lchab |-> <<"XYZ_to_Lab", "Lab_to_LCHab">>,
          lchuv |-> <<"XYZ_to_Lab", "Luv_to_LCHuv">>,
          luv |-> <<"XYZ_to_Luv">>,
          rgb |-> <<"XYZ_to_RGB">>,
          hsl |-> <<"XYZ_to_RGB", "RGB_to_HSL">>,
          hsv |-> <<"XYZ_to_RGB", "RGB_to_HSV">>,
          cmy |-> <<"XYZ_to_RGB", "RGB_to_CMY">>,
          cmyk |-> <<"XYZ_to_RGB", "RGB_to_CMY", "CMY_to_CMYK">> ],
      xyYColor |->
        [ xyy |-> <<NoneV>>,
          xyz |-> <<"xyY_to_XYZ">>,
          lab |-> <<"xyY_to_XYZ", "XYZ_to_Lab">>,
          lchab |-> <<"xyY_to_XYZ", "XYZ_to_Lab", "Lab_to_LCHab">>,
          lchuv |-> <<"xyY_to_XYZ", "XYZ_to_Luv", "Luv_to_LCHuv">>,
          luv |-> <<"xyY_to_XYZ", "XYZ_to_Luv">>,
          rgb |-> <<"xyY_to_XYZ", "XYZ_to_RGB">>,
          hsl |-> <<"xyY_to_XYZ", "XYZ_to_RGB", "RGB_to_HSL">>,
          hsv |-> <<"xyY_to_XYZ", "XYZ_to_RGB", "RGB_to_HSV">>,
          cmy |-> <<"xyY_to_XYZ", "XYZ_to_RGB", "RGB_to_CMY">>,
          cmyk |-> <<"xyY_to_XYZ", "XYZ_to_RGB", "RGB_to_CMY", "CMY_to_CMYK">> ],
      RGBColor |->
        [ rgb |-> <<NoneV>>,
          hsl |-> <<"RGB_to_HSL">>,
          hsv |-> <<"RGB_to_HSV">>,
          cmy |-> <<"RGB_to_CMY">>,
          cmyk |-> <<"RGB_to_CMY", "CMY_to_CMYK">>,
          xyz |-> <<"RGB_to_XYZ">>,
          xyy |-> <<"RGB_to_XYZ", "XYZ_to_xyY">>,
          lab |-> <<"RGB_to_XYZ", "XYZ_to_Lab">>,
          lchab |-> <<"RGB_to_XYZ", "XYZ_to_Lab", "Lab_to_LCHab">>,
          lchuv |-> <<"RGB_to_XYZ", "XYZ_to_Luv", "Luv_to_LCHuv">>,
          luv |-> <<"RGB_to_XYZ", "XYZ_to_Luv">> ],
      HSLColor |->
        [ hsl |-> <<NoneV>>,
          hsv |-> <<"HSL_to_RGB", "RGB_to_HSV">>,
          rgb |-> <<"HSL_to_RGB">>,
          cmy |-> <<"HSL_to_RGB", "RGB_to_CMY">>,
          cmyk |-> <<"HSL_to_RGB", "RGB_to_CMY", "CMY_to_CMYK">>,
          xyz |-> <<"HSL_to_RGB", "RGB_to_XYZ">>,
          xyy |-> <<"HSL_to_RGB", "RGB_to_XYZ", "XYZ_to_xyY">>,
          lab |-> <<"HSL_to_RGB", "RGB_to_XYZ", "XYZ_to_Lab">>,
          lchab |-> <<"HSL_to_RGB", "RGB_to_XYZ", "XYZ_to_Lab", "Lab_to_LCHab">>,
          lchuv |-> <<"HSL_to_RGB", "RGB_to_XYZ", "XYZ_to_Luv", "Luv_to_LCHuv">>,
          luv |-> <<"HSL_to_RGB", "RGB_to_XYZ", "XYZ_to_RGB">> ],
      HSVColor |->
        [ hsv |-> <<NoneV>>,
          hsl |-> <<"HSV_to_RGB", "RGB_to_HSL">>,
          rgb |-> <<"HSV_to_RGB">>,
          cmy |-> <<"HSV_to_RGB", "RGB_to_CMY">>,
          cmyk |-> <<"HSV_to_RGB", "RGB_to_CMY", "CMY_to_CMYK">>,
          xyz |-> <<"HSV_to_RGB", "RGB_to_XYZ">>,
          xyy |-> <<"HSV_to_RGB", "RGB_to_XYZ", "XYZ_to_xyY">>,
          lab |-> <<"HSV_to_RGB", "RGB_to_XYZ", "XYZ_to_Lab">>,
          lchab |-> <<"HSV_to_RGB", "RGB_to_XYZ", "XYZ_to_Lab", "Lab_to_LCHab">>,
          lchuv |-> <<"HSV_to_RGB", "RGB_to_XYZ", "XYZ_to_Luv", "Luv_to_LCHuv">>,
          luv |-> <<"HSV_to_RGB", "RGB_to_XYZ", "XYZ_to_RGB">> ],
      CMYColor |->
        [ cmy |-> <<NoneV>>,
          cmyk |-> <<"CMY_to_CMYK">>,
          hsl |-> <<"CMY_to_RGB", "RGB_to_HSL">>,
          hsv |-> <<"CMY_to_RGB", "RGB_to_HSV">>,
          rgb |-> <<"CMY_to_RGB">>,
          xyz |-> <<"CMY_to_RGB", "RGB_to_XYZ">>,
          xyy |-> <<"CMY_to_RGB", "RGB_to_XYZ", "XYZ_to_xyY">>,
          lab |-> <<"CMY_to_RGB", "RGB_to_XYZ", "XYZ_to_Lab">>,
          lchab |-> <<"CMY_to_RGB", "RGB_to_XYZ", "XYZ_to_Lab", "Lab_to_LCHab">>,
          lchuv |-> <<"CMY_to_RGB", "RGB_to_XYZ", "XYZ_to_Luv", "Luv_to_LCHuv">>,
          luv |-> <<"CMY_to_RGB", "RGB_to_XYZ", "XYZ_to_RGB">> ],
      CMYKColor |->
        [ cmyk |-> <<NoneV>>,
          cmy |-> <<"CMYK_to_CMY">>,
          hsl |-> <<"CMYK_to_CMY", "CMY_to_RGB", "RGB_to_HSL">>,
          hsv |-> <<"CMYK_to_CMY", "CMY_to_RGB", "RGB_to_HSV">>,
          rgb |-> <<"CMYK_to_CMY", "CMY_to_RGB">>,
          xyz |-> <<"CMYK_to_CMY", "CMY_to_RGB", "RGB_to_XYZ">>,
          xyy |-> <<"CMYK_to_CMY", "CMY_to_RGB", "RGB_to_XYZ", "XYZ_to_xyY">>,
          lab |-> <<"CMYK_to_CMY", "CMY_to_RGB", "RGB_to_XYZ", "XYZ_to_Lab">>,
          lchab |-> <<"CMYK_to_CMY", "CMY_to_RGB", "RGB_to_XYZ", "XYZ_to_Lab", "Lab_to_LCHab">>,
          lchuv |-> <<"CMYK_to_CMY", "CMY_to_RGB", "RGB_to_XYZ", "XYZ_to_Luv", "Luv_to_LCHuv">>,
          luv |-> <<"CMYK_to_CMY", "CMY_to_RGB", "RGB_to_XYZ", "XYZ_to_RGB">> ] ]

\* the VALUES list of every color class
VALUES ==
    [ SpectralColor |->
          <<"spec_340nm", "spec_350nm", "spec_360nm", "spec_370nm", "spec_380nm",
          "spec_390nm", "spec_400nm", "spec_410nm", "spec_420nm", "spec_430nm",
          "spec_440nm", "spec_450nm", "spec_460nm", "spec_470nm", "spec_480nm",
          "spec_490nm", "spec_500nm", "spec_510nm", "spec_520nm", "spec_530nm",
          "spec_540nm", "spec_550nm", "spec_560nm", "spec_570nm", "spec_580nm",
          "spec_590nm", "spec_600nm", "spec_610nm", "spec_620nm", "spec_630nm",
          "spec_640nm", "spec_650nm", "spec_660nm", "spec_670nm", "spec_680nm",
          "spec_690nm", "spec_700nm", "spec_710nm", "spec_720nm", "spec_730nm",
          "spec_740nm", "spec_750nm", "spec_760nm", "spec_770nm", "spec_780nm",
          "spec_790nm", "spec_800nm", "spec_810nm", "spec_820nm", "spec_830nm">>,
      LabColor |->
          <<"lab_l", "lab_a", "lab_b">>,
      LCHabColor |->
          <<"lch_l", "lch_c", "lch_h">>,
      LCHuvColor |->
          <<"lch_l", "lch_c", "lch_h">>,
      LuvColor |->
          <<"luv_l", "luv_u", "luv_v">>,
      XYZColor |->
          <<"xyz_x", "xyz_y", "xyz_z">>,
      xyYColor |->
          <<"xyy_x", "xyy_y", "xyy_Y">>,
      RGBColor |->
          <<"rgb_r", "rgb_g", "rgb_b">>,
      HSLColor |->
          <<"hsl_h", "hsl_s", "hsl_l">>,
      HSVColor |->
          <<"hsv_h", "hsv_s", "hsv_v">>,
      CMYColor |->
          <<"cmy_c", "cmy_m", "cmy_y">>,
      CMYKColor |->
          <<"cmyk_c", "cmyk_m", "cmyk_y", "cmyk_k">> ]

ColorClasses == DOMAIN CONVERSIONS

\* the classes whose instances carry the attribute rgb_type
RGBTypeClasses == {"RGBColor", "HSLColor", "HSVColor"}

\* a coordinate: a float (num counts 1/510ths for an RGB channel), a numeric
\* string, a string that is no number, None, or an object of another type
Value(kind, num) == [kind |-> kind, num |-> num]

\* Python's float(value): the float, ValueError for a string that is no
\* number, TypeError for None and for objects that are neither number nor string
float(value) ==
    CASE value.kind \in {"float", "numstr"} ->
            [exc |-> NoneV, value |-> Value("float", value.num)]
      [] value.kind = "str" -> [exc |-> "ValueError", value |-> value]
      [] OTHER -> [exc |-> "TypeError", value |-> value]

\* the least index of a non-empty set of indices
FirstOf(S) == CHOOSE i \in S : \A j \in S : i <= j

\* ColorBaseWithIlluminant.set_illuminant
set_illuminant(self, illuminant) == [self EXCEPT !.illuminant = lower(illuminant)]

\* ColorBaseWithIlluminant.set_observer
set_observer(self, observer) ==
    IF observer \notin {"2", "10"}
    THEN [exc |-> "InvalidObserver", obj |-> self]
    ELSE [exc |-> NoneV, obj |-> [self EXCEPT !.observer = observer]]

\* cls(*args, illuminant=..., observer=...) / RGBColor(r, g, b): the new object
\* or the exception leaving the constructor
__init__(cls, args, illuminant, observer) ==
    LET bad == {i \in DOMAIN args : float(args[i]).exc # NoneV}
        self == [cls |-> cls, values |-> [i \in DOMAIN args |-> float(args[i]).value],
                 illuminant |-> NoneV, observer |-> NoneV, adaptation |-> <<>>,
                 rgb_type |-> IF cls \in RGBTypeClasses THEN "srgb" ELSE NoneV]
    IN  IF bad # {}
        THEN [exc |-> float(args[FirstOf(bad)]).exc, obj |-> NoColor]
        ELSE IF cls \in IlluminantClasses
        THEN LET r == set_observer(set_illuminant(self, illuminant), observer)
             IN  IF r.exc # NoneV THEN [exc |-> r.exc, obj |-> NoColor] ELSE r
        ELSE [exc |-> NoneV, obj |-> self]

\* ColorBase.has_required_values: None when every value passes, else the
\* exception raised at the first value of VALUES that does not
_has_required_values(self) ==
    LET bad == {i \in DOMAIN self.values :
                   self.values[i].kind = "None" \/ float(self.values[i]).exc # NoneV}
    IN  IF bad = {} THEN NoneV
        ELSE LET value == self.values[FirstOf(bad)]
             IN  IF value.kind = "None" THEN "MissingValue"
                 ELSE IF float(value).exc = "ValueError" THEN "InvalidValue"
                 ELSE float(value).exc

\* has_required_values of the class of self
has_required_values(self) ==
    IF self.cls \in IlluminantClasses /\ self.observer \notin {"2", "10"}
    THEN "InvalidObserver"
    ELSE _has_required_values(self)

\* the class of the color a conversion function of a CONVERSIONS table returns
ResultClass(func) ==
    IF DeclaredTarget(func) = "BaseRGBColor" THEN "RGBColor" ELSE DeclaredTarget(func)

\* the class whose coordinates a conversion function reads from its argument
StartClass(func) ==
    LET i == CHOOSE k \in DOMAIN Registrations : Registrations[k][3] = func
    IN  IF Registrations[i][1] = "BaseRGBColor" THEN "RGBColor" ELSE Registrations[i][1]

\* the for loop of convert_to over the conversion path: a None entry is
\* skipped, a function reads the coordinates of its start class from cobj
\* (AttributeError when cobj is of another class) and returns a new color
RECURSIVE _run_conversions(_, _, _, _)
_run_conversions(conversions, i, cobj, trace) ==
    IF i > Len(conversions)
    THEN [kind |-> "return", trace |-> trace, cobj |-> cobj]
    ELSE IF conversions[i] = NoneV
    THEN _run_conversions(conversions, i + 1, cobj, trace)
    ELSE IF cobj.cls # StartClass(conversions[i])
    THEN [kind |-> "AttributeError", trace |-> Append(trace, conversions[i]),
          cobj |-> NoColor]
    ELSE _run_conversions(conversions, i + 1, [cls |-> ResultClass(conversions[i])],
                          Append(trace, conversions[i]))

\* ColorBase.convert_to(cs_to): the exception raised, or the functions
\* invoked in order and the color returned
convert_to(self, cs_to) ==
    IF lower(cs_to) \notin DOMAIN CONVERSIONS[self.cls]
    THEN [kind |-> "InvalidConversion", trace |-> <<>>, cobj |-> NoColor]
    ELSE IF has_required_values(self) # NoneV
    THEN [kind |-> has_required_values(self), trace |-> <<>>, cobj |-> NoColor]
    ELSE _run_conversions(CONVERSIONS[self.cls][lower(cs_to)], 1, self, <<>>)

\* RGBColor.get_rgb_upscaled: int(math.floor(0.5 + channel * 255)) per channel
get_rgb_upscaled(self) == [i \in DOMAIN self.values |-> (self.values[i].num + 1) \div 2]

HexDigits == <<"0", "1", "2", "3", "4", "5", "6", "7", "8", "9", "a", "b", "c", "d", "e", "f">>

\* the digits of n >= 0 to the base 16, as the conversion %x writes them
RECURSIVE ToHex(_)
ToHex(n) ==
    IF n < 16 THEN <<HexDigits[n + 1]>>
    ELSE Append(ToHex(n \div 16), HexDigits[(n % 16) + 1])

\* '%02x' % n: sign, digits, zero-padded to a width of two characters
Format02x(n) ==
    LET body == IF n < 0 THEN <<"-">> \o ToHex(-n) ELSE ToHex(n)
    IN  IF Len(body) < 2 THEN <<"0">> \o body ELSE body

\* RGBColor.get_rgb_hex: the string as the sequence of its characters
get_rgb_hex(self) ==
    LET rgb == get_rgb_upscaled(self)
    IN  <<"#">> \o Format02x(rgb[1]) \o Format02x(rgb[2]) \o Format02x(rgb[3])

\* str.strip() on a sequence of characters
RECURSIVE lstrip(_)
lstrip(str) == IF str # <<>> /\ str[1] = " " THEN lstrip(Tail(str)) ELSE str

RECURSIVE rstrip(_)
rstrip(str) ==
    IF str # <<>> /\ str[Len(str)] = " " THEN rstrip(SubSeq(str, 1, Len(str) - 1)) ELSE str

strip(str) == rstrip(lstrip(str))

\* the value of a hexadecimal digit character of either case
DigitValue ==
    [c \in {"0", "1", "2", "3", "4", "5", "6", "7", "8", "9", "a", "b", "c", "d", "e", "f",
            "A", "B", "C", "D", "E", "F"} |->
        CASE c \in {"a", "A"} -> 10 [] c \in {"b", "B"} -> 11 [] c \in {"c", "C"} -> 12
          [] c \in {"d", "D"} -> 13 [] c \in {"e", "E"} -> 14 [] c \in {"f", "F"} -> 15
          [] OTHER -> CHOOSE n \in 0..9 : HexDigits[n + 1] = c]

RECURSIVE DigitsValue(_)
DigitsValue(digits) ==
    IF digits = <<>> THEN 0
    ELSE 16 * DigitsValue(SubSeq(digits, 1, Len(digits) - 1)) + DigitValue[digits[Len(digits)]]

\* Python's int(text, 16): surrounding whitespace is dropped, one sign is
\* allowed, then at least one hexadecimal digit; ValueError otherwise
int_16(text) ==
    LET t == strip(text)
        signed == t # <<>> /\ t[1] \in {"+", "-"}
        digits == IF signed THEN Tail(t) ELSE t
    IN  IF digits = <<>> \/ \E i \in DOMAIN digits : digits[i] \notin DOMAIN DigitValue
        THEN [exc |-> "ValueError", value |-> 0]
        ELSE [exc |-> NoneV,
              value |-> IF signed /\ t[1] = "-" THEN 0 - DigitsValue(digits)
                        ELSE DigitsValue(digits)]

\* RGBColor.new_from_rgb_hex(hex_str): the new color or the exception; a
\* channel int(n, 16) / 255.0 is 2 * int(n, 16) in 1/510ths
new_from_rgb_hex(hex_str) ==
    LET stripped == strip(hex_str)
    IN  IF stripped = <<>>
        THEN [exc |-> "IndexError", obj |-> NoColor]
        ELSE LET colorstring == IF stripped[1] = "#" THEN Tail(stripped) ELSE stripped
                 r == int_16(SubSeq(colorstring, 1, 2))
                 g == int_16(SubSeq(colorstring, 3, 4))
                 b == int_16(SubSeq(colorstring, 5, 6))
             IN  IF Len(colorstring) # 6
                 THEN [exc |-> "ValueError", obj |-> NoColor]
                 ELSE IF r.exc # NoneV \/ g.exc # NoneV \/ b.exc # NoneV
                 THEN [exc |-> "ValueError", obj |-> NoColor]
                 ELSE __init__("RGBColor",
                               <<Value("float", 2 * r.value), Value("float", 2 * g.value),
                                 Value("float", 2 * b.value)>>, NoneV, NoneV)

\* the scalar Delta E functions of colormath.color_diff
DeltaEFunctions == {"delta_e_cie1976", "delta_e_cie1994", "delta_e_cie2000", "delta_e_cmc"}

\* float(color.lab_l), float(color.lab_a), float(color.lab_b): None when all
\* three are read, else the exception of the first that is not
_read_lab(color_) ==
    IF \E name \in {"lab_l", "lab_a", "lab_b"} : name \notin Range(VALUES[color_.cls])
    THEN "AttributeError"
    ELSE LET bad == {i \in DOMAIN color_.values : float(color_.values[i]).exc # NoneV}
         IN  IF bad = {} THEN NoneV ELSE float(color_.values[FirstOf(bad)]).exc

\* delta_e_cie1976 / delta_e_cie1994 / delta_e_cie2000 / delta_e_cmc up to the
\* point where both colors' coordinates have been read
delta_e(func, color1, color2) ==
    IF _read_lab(color1) # NoneV THEN [kind |-> _read_lab(color1)]
    ELSE IF _read_lab(color2) # NoneV THEN [kind |-> _read_lab(color2)]
    ELSE [kind |-> "return"]

-----------------------------------------------------------------------------
(* Actions of a caller working with color objects *)

\* the channel values, in 1/510ths, of the RGB colors a caller constructs:
\* -0.5, 0.0, 0.5, 1.0, 1.5
ChannelValues == {0 - 255, 0, 255, 510, 765}

\* a coordinate list of floats
Floats(cls) == [i \in DOMAIN VALUES[cls] |-> Value("float", 0)]

\* the coordinates a caller passes to a constructor
ConstructorArgs(cls) ==
    IF cls = "RGBColor"
    THEN {<<Value("float", r), Value("float", g), Value("float", b)>> :
              r \in ChannelValues, g \in ChannelValues, b \in ChannelValues}
    ELSE {Floats(cls)} \cup
         {[Floats(cls) EXCEPT ![i] = Value(kind, 0)] :
              i \in {1, Len(VALUES[cls])}, kind \in {"numstr", "str", "None", "list"}}

\* the illuminant and observer arguments a caller passes to a constructor
IlluminantArgs == {"d50", "D65", "zz"}

ObserverArgs == {"2", "10", "int 2", "90"}

\* the arguments a caller passes to convert_to and apply_adaptation
ConvertToArgs == {"xyz", "XYZ", "Lab", "rgb", "lchuv", "luv", "nope"}

AdaptationArgs == {"d50", "d65", "D65"}

\* the pieces of the strings a caller passes to new_from_rgb_hex
HexPrefixes == {<<>>, <<"#">>, <<" ", "#">>, <<"#", "#">>}

HexChannels ==
    {<<"0", "0">>, <<"f", "F">>, <<"+", "f">>, <<"-", "1">>, <<" ", "a">>, <<"g", "0">>}

HexSuffixes == {<<>>, <<" ">>, <<"0">>}

HexArgs ==
    {<<>>, <<" ">>, <<"#">>} \cup
    {pre \o r \o g \o b \o post :
        pre \in HexPrefixes, r \in HexChannels, g \in HexChannels, b \in HexChannels,
        post \in HexSuffixes}

InitObjects ==
    /\ mode = "objects"
    /\ registered_color_spaces = {}
    /\ conversion_graph = EmptyDiGraph
    /\ func_attrs = NoAttrs
    /\ loaded = 0
    /\ regs = 0
    /\ ret = NoRet
    /\ color = NoColor
    /\ call = NoCall

\* color = cls(...), the first thing the caller does: it holds the new object,
\* or none when the constructor raised
NewColor ==
    /\ color = NoColor /\ call = NoCall
    /\ \E cls \in ColorClasses, illuminant \in IlluminantArgs, observer \in ObserverArgs :
         \E args \in ConstructorArgs(cls) :
           /\ cls \notin IlluminantClasses => (illuminant = "d50" /\ observer = "2")
           /\ LET r == __init__(cls, args, illuminant, observer)
              IN  /\ call' = [op |-> "__init__", cls |-> cls, args |-> args,
                              illuminant |-> illuminant, observer |-> observer, out |-> r]
                  /\ color' = r.obj
    /\ UNCHANGED mgrVars

\* color.<coordinate> = value or color.observer = value, assigned by the caller
SetAttribute ==
    /\ color # NoColor
    /\ color.cls \in MalformedClasses
    /\ \/ \E i \in DOMAIN color.values, kind \in {"None", "str", "list"} :
              color' = [color EXCEPT !.values[i] = Value(kind, 0)]
       \/ color' = [color EXCEPT !.observer = "90"]
    /\ call' = NoCall
    /\ UNCHANGED mgrVars

\* color.convert_to(cs_to)
ConvertTo ==
    /\ color # NoColor
    /\ \E cs_to \in ConvertToArgs :
           call' = [op |-> "convert_to", color |-> color, cs_to |-> cs_to,
                    out |-> convert_to(color, cs_to)]
    /\ UNCHANGED <<mgrVars, color>>

\* color.apply_adaptation(target_illuminant) on an XYZ color
ApplyAdaptation ==
    /\ color # NoColor
    /\ color.cls = "XYZColor"
    /\ Len(color.adaptation) < MaxAdaptations
    /\ \E target_illuminant \in AdaptationArgs :
           LET r == apply_adaptation(color, target_illuminant)
           IN  /\ call' = [op |-> "apply_adaptation", color |-> color,
                           target_illuminant |-> target_illuminant, out |-> r]
               /\ color' = r.obj
    /\ UNCHANGED mgrVars

\* color.get_rgb_hex() on an RGB color
GetRGBHex ==
    /\ color # NoColor
    /\ color.cls = "RGBColor"
    /\ call' = [op |-> "get_rgb_hex", color |-> color, out |-> get_rgb_hex(color)]
    /\ UNCHANGED <<mgrVars, color>>

\* color = RGBColor.new_from_rgb_hex(hex_str), the first thing the caller does
NewFromRGBHex ==
    /\ color = NoColor /\ call = NoCall
    /\ \E hex_str \in HexArgs :
           LET r == new_from_rgb_hex(hex_str)
           IN  /\ call' = [op |-> "new_from_rgb_hex", hex_str |-> hex_str, out |-> r]
               /\ color' = r.obj
    /\ UNCHANGED mgrVars

\* a scalar Delta E function called with a Lab color and the color held, in
\* either order
DeltaE ==
    /\ color # NoColor
    /\ \E func \in DeltaEFunctions, swapped \in BOOLEAN :
           LET lab == __init__("LabColor", Floats("LabColor"), "d50", "2").obj
               color1 == IF swapped THEN color ELSE lab
               color2 == IF swapped THEN lab ELSE color
           IN  call' = [op |-> func, color1 |-> color1, color2 |-> color2,
                        out |-> delta_e(func, color1, color2)]
    /\ UNCHANGED <<mgrVars, color>>

NextObjects ==
    NewColor \/ SetAttribute \/ ConvertTo \/ ApplyAdaptation \/ GetRGBHex
       \/ NewFromRGBHex \/ DeltaE

SpecObjects == InitObjects /\ [][NextObjects]_vars

-----------------------------------------------------------------------------
(* Coordinates: Python floats, kept here to four decimal places *)

\* the float 1.0
Unit == 10000

Abs(x) == IF x < 0 THEN 0 - x ELSE x

Sign(x) == IF x < 0 THEN 0 - 1 ELSE 1

Min(x, y) == IF x < y THEN x ELSE y

Max(x, y) == IF x > y THEN x ELSE y

\* a * b
Mul(a, b) ==
    LET x == Abs(a)
        y == Abs(b)
        x1 == x \div 100
        x0 == x % 100
        y1 == y \div 100
        y0 == y % 100
    IN  Sign(a) * Sign(b) * (x1 * y1 + (x1 * y0) \div 100 + (x0 * y1) \div 100
                             + (x0 * y0) \div 10000)

\* a / b for b # 0 (Python raises ZeroDivisionError for b = 0: the callers test it)
Div(a, b) ==
    LET x == Abs(a)
        y == Abs(b)
        q1 == x \div y
        r1 == x % y
        d1 == (r1 * 100) \div y
        r2 == (r1 * 100) % y
        d2 == (r2 * 100) \div y
    IN  Sign(a) * Sign(b) * (q1 * Unit + d1 * 100 + d2)

\* the largest float the roots below are taken of
Cap == 10000 * Unit

\* x ** n for an integer n >= 0 and x >= 0, saturating at Cap
RECURSIVE PowN(_, _)
PowN(x, n) ==
    IF n = 0 THEN Unit
    ELSE CHOOSE out \in { IF (p \div Unit) * (x \div 100) >= Cap \div 100 THEN Cap
                          ELSE Min(Mul(p, x), Cap) : p \in {PowN(x, n - 1)} } : TRUE

\* the least t in lo..hi with t ** n >= v
RECURSIVE Bisect(_, _, _, _)
Bisect(v, n, lo, hi) ==
    IF lo >= hi THEN hi
    ELSE LET mid == (lo + hi) \div 2
         IN  IF PowN(mid, n) >= v THEN Bisect(v, n, lo, mid) ELSE Bisect(v, n, mid + 1, hi)

\* math.pow(v, 1.0 / n) and math.sqrt for 0 <= v <= Cap
Root(v, n) == Bisect(v, n, 0, 100 * Unit)

\* math.cos(math.radians(h)) and math.sin(math.radians(h)), for h a multiple of 45 degrees
cos_radians(h) ==
    LET d == (h \div Unit) % 360
    IN  CASE d \in {0} -> Unit
          [] d \in {45, 315} -> 7071
          [] d \in {90, 270} -> 0
          [] d \in {135, 225} -> 0 - 7071
          [] d \in {180} -> 0 - Unit

sin_radians(h) == cos_radians(h + 270 * Unit)

\* math.degrees(math.atan2(y, x)), for (x, y) on an axis or a diagonal
degrees_atan2(y, x) ==
    CASE y = 0 /\ x >= 0 -> 0
      [] y = 0 /\ x < 0 -> 180 * Unit
      [] x = 0 /\ y > 0 -> 90 * Unit
      [] x = 0 /\ y < 0 -> 0 - 90 * Unit
      [] x # 0 /\ y = x /\ y > 0 -> 45 * Unit
      [] x # 0 /\ y = 0 - x /\ y > 0 -> 135 * Unit
      [] x # 0 /\ y = 0 - x /\ y < 0 -> 0 - 45 * Unit
      [] x # 0 /\ y = x /\ y < 0 -> 0 - 135 * Unit

\* the pairs degrees_atan2 is exact on
OnAxisOrDiagonal(x, y) == x = 0 \/ y = 0 \/ Abs(x) = Abs(y)
-----------------------------------------------------------------------------
(* The conversion functions of color_conversions.py on coordinates *)

ColorValue(cls, values, illuminant, observer) ==
    [cls |-> cls, values |-> values, illuminant |-> illuminant, observer |-> observer]

\* what a call of a conversion function gives: the color it returns or the
\* exception it raises
Gives(obj) == [exc |-> NoneV, obj |-> obj]

Raises(exc) == [exc |-> exc, obj |-> NoColor]

\* 216.0 / 24389.0
CIE_E == 89

\* 24389.0 / 27.0
CIE_K == 9032963

\* the white points, on the scale on which Y is 1.0
ILLUMINANTS ==
    [ob \in Observers |->
        IF ob = "2"
        THEN [d50 |-> [X |-> 9642, Y |-> 10000, Z |-> 8252],
              d65 |-> [X |-> 9505, Y |-> 10000, Z |-> 10888]]
        ELSE [d50 |-> [X |-> 9672, Y |-> 10000, Z |-> 8143],
              d65 |-> [X |-> 9481, Y |-> 10000, Z |-> 10730]]]

get_illuminant_xyz(self) == ILLUMINANTS[self.observer][self.illuminant]

\* the Bradford matrix between two white points of the 2 degree observer
_get_adaptation_matrix(wp_src, wp_dst) ==
    CASE wp_src = "d50" /\ wp_dst = "d65" ->
             << <<9556, 0 - 230, 632>>, <<0 - 283, 10099, 210>>, <<123, 0 - 205, 13301>> >>

\* numpy.dot of a matrix and a vector
dot(matrix, vector) ==
    [i \in 1..3 |-> Mul(matrix[i][1], vector[1]) + Mul(matrix[i][2], vector[2])
                    + Mul(matrix[i][3], vector[3])]

apply_chromatic_adaptation_values(val_x, val_y, val_z, orig_illum, targ_illum) ==
    dot(_get_adaptation_matrix(orig_illum, targ_illum), <<val_x, val_y, val_z>>)

\* 1 / rgb_gamma of Adobe RGB is 1 / 2.2, that is 5 / 11
rgb_gamma_root == 11

rgb_gamma_power == 5

conversion_matrices(rgb_type) ==
    IF rgb_type = "sRGBColor"
    THEN [xyz_to_rgb |-> << <<32407, 0 - 15373, 0 - 4986>>, <<0 - 9693, 18760, 416>>,
                            <<556, 0 - 2040, 10571>> >>]
    ELSE [xyz_to_rgb |-> << <<20415, 0 - 5650, 0 - 3447>>, <<0 - 9693, 18760, 416>>,
                            <<134, 0 - 1184, 10153>> >>]

apply_RGB_matrix(var1, var2, var3, rgb_type, convtype) ==
    LET result_matrix == dot(conversion_matrices(rgb_type)[convtype], <<var1, var2, var3>>)
    IN  <<Max(result_matrix[1], 0), Max(result_matrix[2], 0), Max(result_matrix[3], 0)>>

\* math.pow(x, 3)
pow3(x) == Mul(Mul(x, x), x)

Lab_to_LCHab(cobj) ==
    LET lch_l == cobj.values[1]
        lch_c == Root(Mul(cobj.values[2], cobj.values[2])
                      + Mul(cobj.values[3], cobj.values[3]), 2)
        lch_h == degrees_atan2(cobj.values[3], cobj.values[2])
    IN  Gives(ColorValue("LCHabColor",
                            <<lch_l, lch_c,
                              IF lch_h > 0 THEN lch_h ELSE 360 * Unit - Abs(lch_h)>>,
                            cobj.illuminant, cobj.observer))

Lab_to_XYZ(cobj) ==
    LET illum == get_illuminant_xyz(cobj)
        xyz_y == Div(cobj.values[1] + 16 * Unit, 116 * Unit)
        xyz_x == Div(cobj.values[2], 500 * Unit) + xyz_y
        xyz_z == xyz_y - Div(cobj.values[3], 200 * Unit)
        f(t) == IF pow3(t) > CIE_E THEN pow3(t)
                ELSE Div(t - Div(16 * Unit, 116 * Unit), 77870)
    IN  Gives(ColorValue("XYZColor",
                            <<Mul(illum.X, f(xyz_x)), Mul(illum.Y, f(xyz_y)),
                              Mul(illum.Z, f(xyz_z))>>,
                            cobj.illuminant, cobj.observer))

Luv_to_LCHuv(cobj) ==
    LET lch_l == cobj.values[1]
        lch_c == Root(Mul(cobj.values[2], cobj.values[2])
                      + Mul(cobj.values[3], cobj.values[3]), 2)
        lch_h == degrees_atan2(cobj.values[3], cobj.values[2])
    IN  Gives(ColorValue("LCHuvColor",
                            <<lch_l, lch_c,
                              IF lch_h > 0 THEN lch_h ELSE 360 * Unit - Abs(lch_h)>>,
                            cobj.illuminant, cobj.observer))

\* Luv_to_XYZ after its short circuit
Luv_to_XYZ_lit(cobj) ==
    LET illum == get_illuminant_xyz(cobj)
        luv_l == cobj.values[1]
        cie_k_times_e == Mul(CIE_K, CIE_E)
        u_sub_0 == Div(4 * illum.X, illum.X + 15 * illum.Y + 3 * illum.Z)
        v_sub_0 == Div(9 * illum.Y, illum.X + 15 * illum.Y + 3 * illum.Z)
        var_u == Div(cobj.values[2], 13 * luv_l) + u_sub_0
        var_v == Div(cobj.values[3], 13 * luv_l) + v_sub_0
        xyz_y == IF luv_l > cie_k_times_e
                 THEN pow3(Div(luv_l + 16 * Unit, 116 * Unit))
                 ELSE Div(luv_l, CIE_K)
        xyz_x == Div(Mul(xyz_y * 9, var_u), 4 * var_v)
        xyz_z == Div(Mul(xyz_y, 12 * Unit - 3 * var_u - 20 * var_v), 4 * var_v)
    IN  IF 13 * luv_l = 0 THEN Raises("ZeroDivisionError")
        ELSE IF 4 * var_v = 0 THEN Raises("ZeroDivisionError")
        ELSE Gives(ColorValue("XYZColor", <<xyz_x, xyz_y, xyz_z>>,
                                 cobj.illuminant, cobj.observer))

Luv_to_XYZ_without_short_circuit(cobj) == Luv_to_XYZ_lit(cobj)

Luv_to_XYZ(cobj) ==
    IF cobj.values[1] <= 0
    THEN Gives(ColorValue("XYZColor", <<0, 0, 0>>, cobj.illuminant, cobj.observer))
    ELSE Luv_to_XYZ_lit(cobj)

LCHab_to_Lab(cobj) ==
    Gives(ColorValue("LabColor",
                        <<cobj.values[1], Mul(cos_radians(cobj.values[3]), cobj.values[2]),
                          Mul(sin_radians(cobj.values[3]), cobj.values[2])>>,
                        cobj.illuminant, cobj.observer))

LCHuv_to_Luv(cobj) ==
    Gives(ColorValue("LuvColor",
                        <<cobj.values[1], Mul(cos_radians(cobj.values[3]), cobj.values[2]),
                          Mul(sin_radians(cobj.values[3]), cobj.values[2])>>,
                        cobj.illuminant, cobj.observer))

XYZ_to_xyY(cobj) ==
    LET xyz_sum == cobj.values[1] + cobj.values[2] + cobj.values[3]
        xyy_x == IF xyz_sum = 0 THEN 0 ELSE Div(cobj.values[1], xyz_sum)
        xyy_y == IF xyz_sum = 0 THEN 0 ELSE Div(cobj.values[2], xyz_sum)
    IN  Gives(ColorValue("xyYColor", <<xyy_x, xyy_y, cobj.values[2]>>,
                            cobj.illuminant, cobj.observer))

XYZ_to_Luv(cobj) ==
    LET temp_x == cobj.values[1]
        temp_z == cobj.values[3]
        denom == temp_x + 15 * cobj.values[2] + 3 * temp_z
        luv_u0 == IF denom = 0 THEN 0 ELSE Div(4 * temp_x, denom)
        luv_v0 == IF denom = 0 THEN 0 ELSE Div(9 * cobj.values[2], denom)
        illum == get_illuminant_xyz(cobj)
        temp_y0 == Div(cobj.values[2], illum.Y)
        temp_y == IF temp_y0 > CIE_E THEN Root(temp_y0, 3)
                  ELSE Mul(77870, temp_y0) + Div(16 * Unit, 116 * Unit)
        ref_U == Div(4 * illum.X, illum.X + 15 * illum.Y + 3 * illum.Z)
        ref_V == Div(9 * illum.Y, illum.X + 15 * illum.Y + 3 * illum.Z)
        luv_l == 116 * temp_y - 16 * Unit
    IN  Gives(ColorValue("LuvColor",
                            <<luv_l, Mul(13 * luv_l, luv_u0 - ref_U),
                              Mul(13 * luv_l, luv_v0 - ref_V)>>,
                            cobj.illuminant, cobj.observer))

XYZ_to_RGB(cobj, target_rgb) ==
    LET target_illum == native_illuminant(target_rgb)
        temp == IF cobj.illuminant # target_illum
                THEN apply_chromatic_adaptation_values(cobj.values[1], cobj.values[2],
                                                       cobj.values[3], cobj.illuminant,
                                                       target_illum)
                ELSE cobj.values
        linear_channels == apply_RGB_matrix(temp[1], temp[2], temp[3], target_rgb,
                                            "xyz_to_rgb")
        nonlinear(v) ==
            IF target_rgb = "sRGBColor"
            THEN IF v <= 31 THEN Mul(v, 129200)
                 ELSE Mul(10550, PowN(Root(v, 12), 5)) - 550
            ELSE PowN(Root(v, rgb_gamma_root), rgb_gamma_power)
    IN  Gives(ColorValue(target_rgb,
                            <<nonlinear(linear_channels[1]), nonlinear(linear_channels[2]),
                              nonlinear(linear_channels[3])>>,
                            NoneV, NoneV))

__RGB_to_Hue(var_R, var_G, var_B, var_min, var_max) ==
    IF var_max = var_min THEN 0
    ELSE IF var_max = var_R
    THEN (60 * Div(var_G - var_B, var_max - var_min) + 360 * Unit) % (360 * Unit)
    ELSE IF var_max = var_G
    THEN 60 * Div(var_B - var_R, var_max - var_min) + 120 * Unit
    ELSE 60 * Div(var_R - var_G, var_max - var_min) + 240 * Unit

RGB_to_HSV(cobj) ==
    LET var_R == cobj.values[1]
        var_G == cobj.values[2]
        var_B == cobj.values[3]
        var_max == Max(var_R, Max(var_G, var_B))
        var_min == Min(var_R, Min(var_G, var_B))
        var_H == __RGB_to_Hue(var_R, var_G, var_B, var_min, var_max)
        var_S == IF var_max = 0 THEN 0 ELSE Unit - Div(var_min, var_max)
    IN  Gives(ColorValue("HSVColor", <<var_H, var_S, var_max>>, NoneV, NoneV))

RGB_to_HSL(cobj) ==
    LET var_R == cobj.values[1]
        var_G == cobj.values[2]
        var_B == cobj.values[3]
        var_max == Max(var_R, Max(var_G, var_B))
        var_min == Min(var_R, Min(var_G, var_B))
        var_H == __RGB_to_Hue(var_R, var_G, var_B, var_min, var_max)
        var_L == Mul(5000, var_max + var_min)
        denom == IF var_L <= 5000 THEN 2 * var_L ELSE 2 * Unit - 2 * var_L
    IN  IF var_max = var_min
        THEN Gives(ColorValue("HSLColor", <<var_H, 0, var_L>>, NoneV, NoneV))
        ELSE IF denom = 0 THEN Raises("ZeroDivisionError")
        ELSE Gives(ColorValue("HSLColor",
                                 <<var_H, Div(var_max - var_min, denom), var_L>>,
                                 NoneV, NoneV))

RGB_to_CMY(cobj) ==
    Gives(ColorValue("CMYColor",
                        <<Unit - cobj.values[1], Unit - cobj.values[2],
                          Unit - cobj.values[3]>>, NoneV, NoneV))

CMY_to_RGB(cobj, target_rgb) ==
    Gives(ColorValue(target_rgb,
                        <<Unit - cobj.values[1], Unit - cobj.values[2],
                          Unit - cobj.values[3]>>, NoneV, NoneV))

CMY_to_CMYK(cobj) ==
    LET var_k == Min(Unit, Min(cobj.values[1], Min(cobj.values[2], cobj.values[3])))
    IN  IF var_k = Unit
        THEN Gives(ColorValue("CMYKColor", <<0, 0, 0, var_k>>, NoneV, NoneV))
        ELSE Gives(ColorValue("CMYKColor",
                                 <<Div(cobj.values[1] - var_k, Unit - var_k),
                                   Div(cobj.values[2] - var_k, Unit - var_k),
                                   Div(cobj.values[3] - var_k, Unit - var_k), var_k>>,
                                 NoneV, NoneV))

CMYK_to_CMY_without_black(cobj) ==
    LET cmyk_k == cobj.values[4]
    IN  Gives(ColorValue("CMYColor",
                         <<Mul(cobj.values[1], Unit - cmyk_k),
                           Mul(cobj.values[2], Unit - cmyk_k),
                           Mul(cobj.values[3], Unit - cmyk_k)>>,
                         NoneV, NoneV))

CMYK_to_CMY(cobj) ==
    LET cmyk_k == cobj.values[4]
    IN  Gives(ColorValue("CMYColor",
                            <<Mul(cobj.values[1], Unit - cmyk_k) + cmyk_k,
                              Mul(cobj.values[2], Unit - cmyk_k) + cmyk_k,
                              Mul(cobj.values[3], Unit - cmyk_k) + cmyk_k>>,
                            NoneV, NoneV))
-----------------------------------------------------------------------------
(* Delta E CMC of color_diff.py and color_diff_matrix.py, and the Hunt model *)

\* Python's None among floats
None == Value("None", 0)

\* T = base + |amplitude * cos(radians(angle))|, kept as its three parts
T_of(H_1) ==
    IF 164 * Unit <= H_1 /\ H_1 <= 345 * Unit
    THEN [base |-> 5600, amplitude |-> 2000, angle |-> H_1 + 168 * Unit]
    ELSE [base |-> 3600, amplitude |-> 4000, angle |-> H_1 + 35 * Unit]

S_L_of(L1) ==
    IF L1 < 16 * Unit THEN 5110 ELSE Div(Mul(410, L1), Unit + Mul(177, L1))

\* the terms the returned Delta E is computed from, for the reference L1, a1, b1
\* with hue H_1 and the comparison color L2, a2, b2
cmc_terms(L1, a1, b1, H_1, L2, a2, b2) ==
    LET C_1 == Root(Mul(a1, a1) + Mul(b1, b1), 2)
        C_2 == Root(Mul(a2, a2) + Mul(b2, b2), 2)
        S_C == Div(Mul(638, C_1), Unit + Mul(131, C_1)) + 6380
        delta_C == C_1 - C_2
        delta_H_sq == Mul(a1 - a2, a1 - a2) + Mul(b1 - b2, b1 - b2) - Mul(delta_C, delta_C)
    IN  [H_1 |-> H_1, T |-> T_of(H_1), S_L |-> S_L_of(L1), S_C |-> S_C,
         delta_L |-> L1 - L2, delta_C |-> delta_C,
         delta_H |-> IF delta_H_sq < 0 THEN 0 ELSE Root(delta_H_sq, 2)]

\* color_diff.delta_e_cmc
delta_e_cmc(color1, color2) ==
    LET H_1 == degrees_atan2(color1.values[3], color1.values[2])
    IN  cmc_terms(color1.values[1], color1.values[2], color1.values[3], H_1,
                  color2.values[1], color2.values[2], color2.values[3])

\* color_diff_matrix.delta_e_cmc: one result for each row of the matrix
delta_e_cmc_matrix(lab_color_vector, lab_color_matrix) ==
    LET H_1 == degrees_atan2(lab_color_vector[3], lab_color_vector[2])
        H_1_ == IF H_1 < 0 THEN H_1 + 360 * Unit ELSE H_1
    IN  [row \in DOMAIN lab_color_matrix |->
            cmc_terms(lab_color_vector[1], lab_color_vector[2], lab_color_vector[3], H_1_,
                      lab_color_matrix[row][1], lab_color_matrix[row][2],
                      lab_color_matrix[row][3])]

\* Hunt._calculate_achromatic_signal, as far as the ratio s / s_w
_calculate_achromatic_signal(s, s_w) ==
    IF s = None \/ s_w = None THEN "TypeError"
    ELSE IF s_w.num = 0 THEN "ZeroDivisionError"
    ELSE NoneV

\* `s is None != s_w is None` is a chain of comparisons
Hunt_checked(s, s_w) == s = None /\ None # s_w /\ s_w = None

\* Hunt.__init__: the exception it raises and the scotopic responses it uses
Hunt(y, y_w, s, s_w) ==
    IF Hunt_checked(s, s_w) THEN [exc |-> "ValueError", s |-> s, s_w |-> s_w]
    ELSE LET s_ == IF s = None /\ s_w = None THEN y ELSE s
             s_w_ == IF s = None /\ s_w = None THEN y_w ELSE s_w
         IN  [exc |-> _calculate_achromatic_signal(s_, s_w_), s |-> s_, s_w |-> s_w_]
-----------------------------------------------------------------------------
(* Actions of a caller applying conversion functions to coordinates *)

\* the conversion functions whose arithmetic is modelled
ValuePrimitives ==
    {"Lab_to_LCHab", "Lab_to_XYZ", "Luv_to_LCHuv", "Luv_to_XYZ", "LCHab_to_Lab",
     "LCHuv_to_Luv", "XYZ_to_xyY", "XYZ_to_Luv", "XYZ_to_RGB", "RGB_to_HSV", "RGB_to_HSL",
     "RGB_to_CMY", "CMY_to_RGB", "CMY_to_CMYK", "CMYK_to_CMY"}

Primitive(func, cobj, target_rgb) ==
    CASE func = "Lab_to_LCHab" -> Lab_to_LCHab(cobj)
      [] func = "Lab_to_XYZ" -> Lab_to_XYZ(cobj)
      [] func = "Luv_to_LCHuv" -> Luv_to_LCHuv(cobj)
      [] func = "Luv_to_XYZ" -> Luv_to_XYZ(cobj)
      [] func = "LCHab_to_Lab" -> LCHab_to_Lab(cobj)
      [] func = "LCHuv_to_Luv" -> LCHuv_to_Luv(cobj)
      [] func = "XYZ_to_xyY" -> XYZ_to_xyY(cobj)
      [] func = "XYZ_to_Luv" -> XYZ_to_Luv(cobj)
      [] func = "XYZ_to_RGB" -> XYZ_to_RGB(cobj, target_rgb)
      [] func = "RGB_to_HSV" -> RGB_to_HSV(cobj)
      [] func = "RGB_to_HSL" -> RGB_to_HSL(cobj)
      [] func = "RGB_to_CMY" -> RGB_to_CMY(cobj)
      [] func = "CMY_to_RGB" -> CMY_to_RGB(cobj, target_rgb)
      [] func = "CMY_to_CMYK" -> CMY_to_CMYK(cobj)
      [] func = "CMYK_to_CMY" -> CMYK_to_CMY(cobj)

\* the longest chain of conversion functions a caller applies to one color
MaxChain == 3

LightnessInputs == {0, 50 * Unit}

ChromaInputs == {0, 50 * Unit}

HueInputs == {0, 90 * Unit, 225 * Unit}

OpponentInputs == {0 - 20 * Unit, 0, 20 * Unit}

UnitInputs == {0, 2500, 5000, Unit}

\* XYZ of black, of a grey, and two for which a chromaticity denominator is 0
XYZInputs == { <<0, 0, 0>>, <<4000, 5000, 6000>>, <<0 - 3000, 100, 500>>,
               <<0 - 2000, 1000, 1000>> }

InputColors ==
    { ColorValue(cls, <<l, c, h>>, il, "2") :
        cls \in {"LCHabColor", "LCHuvColor"}, l \in LightnessInputs, c \in ChromaInputs,
        h \in HueInputs, il \in Illuminants }
    \cup { ColorValue(cls, <<l, a, b>>, il, "2") :
        cls \in {"LabColor", "LuvColor"}, l \in LightnessInputs, a \in OpponentInputs,
        b \in OpponentInputs, il \in Illuminants }
    \cup { ColorValue("XYZColor", v, il, "2") : v \in XYZInputs, il \in Illuminants }
    \cup { ColorValue(cls, <<r, g, b>>, NoneV, NoneV) :
        cls \in {"sRGBColor", "AdobeRGBColor"}, r \in UnitInputs \ {2500},
        g \in UnitInputs \ {2500}, b \in UnitInputs \ {2500} }
    \cup { ColorValue("CMYColor", <<c, m, y>>, NoneV, NoneV) :
        c \in UnitInputs, m \in UnitInputs, y \in UnitInputs }
    \cup { ColorValue("CMYKColor", <<c, m, y, k>>, NoneV, NoneV) :
        c \in UnitInputs \ {2500}, m \in UnitInputs \ {2500}, y \in UnitInputs \ {2500},
        k \in UnitInputs \ {2500} }

InitValues ==
    /\ mode = "values"
    /\ loaded = Len(Registrations)
    /\ regs = 0
    /\ conversion_graph = LoadedGraph(Len(Registrations))
    /\ registered_color_spaces = conversion_graph._node
    /\ func_attrs = [f \in FuncNames |->
                        LET i == CHOOSE k \in DOMAIN Registrations : Registrations[k][3] = f
                        IN  <<Registrations[i][1], Registrations[i][2]>>]
    /\ ret = NoRet
    /\ color = NoColor
    /\ call = NoCall

\* the caller constructs a color from coordinates
NewValue ==
    /\ color = NoColor /\ call = NoCall
    /\ \E c \in InputColors :
           /\ color' = c
           /\ call' = [op |-> "chain", funcs |-> <<>>, colors |-> <<c>>, exc |-> NoneV]
    /\ UNCHANGED mgrVars

\* the caller applies a conversion function to the color it holds and goes on
\* with the result; the hue functions are applied on the axes and diagonals
CallPrimitive ==
    /\ call.op = "chain"
    /\ call.exc = NoneV
    /\ Len(call.funcs) < MaxChain
    /\ \E func \in ValuePrimitives, target_rgb \in {"sRGBColor", "AdobeRGBColor"} :
           /\ color.cls = func_attrs[func][1]
                \/ (func_attrs[func][1] = "BaseRGBColor" /\ color.cls \in RGBClasses)
           /\ func \in {"Lab_to_LCHab", "Luv_to_LCHuv"} =>
                OnAxisOrDiagonal(color.values[2], color.values[3])
           /\ LET r == Primitive(func, color, target_rgb)
              IN  /\ call' = [op |-> "chain", funcs |-> Append(call.funcs, func),
                              colors |-> IF r.exc = NoneV THEN Append(call.colors, r.obj)
                                         ELSE call.colors,
                              exc |-> r.exc]
                  /\ color' = IF r.exc = NoneV THEN r.obj ELSE color
    /\ UNCHANGED mgrVars

\* the colors a reference color is compared with
ComparisonColors ==
    { ColorValue("LabColor", <<50 * Unit, 20 * Unit, 0>>, "d50", "2"),
      ColorValue("LabColor", <<0, 0, 0 - 20 * Unit>>, "d50", "2") }

\* the caller compares the Lab color it holds with another one, by the scalar
\* function, and keeps the result (a float, not yet there in <<>>) next to
\* those of the matrix function if it has them for the same pair
DeltaECMC ==
    /\ color.cls = "LabColor"
    /\ OnAxisOrDiagonal(color.values[2], color.values[3])
    /\ \E color2 \in ComparisonColors :
           /\ call.op = "chain"
                \/ (call.op = "delta_e_cmc" /\ call.color2 = color2 /\ call.scalar = <<>>)
           /\ call' = [op |-> "delta_e_cmc", color1 |-> color, color2 |-> color2,
                       scalar |-> <<delta_e_cmc(color, color2)>>,
                       matrix |-> IF call.op = "chain" THEN <<>> ELSE call.matrix]
    /\ UNCHANGED <<mgrVars, color>>

\* the same by the matrix function, on a matrix of one row
DeltaECMCMatrix ==
    /\ color.cls = "LabColor"
    /\ OnAxisOrDiagonal(color.values[2], color.values[3])
    /\ \E color2 \in ComparisonColors :
           /\ call.op = "chain"
                \/ (call.op = "delta_e_cmc" /\ call.color2 = color2 /\ call.matrix = <<>>)
           /\ call' = [op |-> "delta_e_cmc", color1 |-> color, color2 |-> color2,
                       scalar |-> IF call.op = "chain" THEN <<>> ELSE call.scalar,
                       matrix |-> delta_e_cmc_matrix(color.values, <<color2.values>>)]
    /\ UNCHANGED <<mgrVars, color>>

\* the scotopic responses a caller passes to Hunt, None when it leaves one out
ScotopicArgs == {None, Value("float", 0), Value("float", 10 * Unit), Value("float", 90 * Unit)}

\* the caller builds a Hunt model
NewHunt ==
    /\ color = NoColor /\ call = NoCall
    /\ \E y \in {Value("float", 20 * Unit), Value("float", 40 * Unit)},
          y_w \in {Value("float", 100 * Unit)}, s \in ScotopicArgs, s_w \in ScotopicArgs :
           call' = [op |-> "Hunt", y |-> y, y_w |-> y_w, s |-> s, s_w |-> s_w,
                    out |-> Hunt(y, y_w, s, s_w)]
    /\ UNCHANGED <<mgrVars, color>>

NextValues == NewValue \/ CallPrimitive \/ DeltaECMC \/ DeltaECMCMatrix \/ NewHunt

SpecValues == InitValues /\ [][NextValues]_vars
-----------------------------------------------------------------------------
(* Properties of the manager *)

\* the node a class stands for in a lookup, stated independently of the code
CanonicalType(t) == IF t \in {"sRGBColor", "AdobeRGBColor"} THEN "BaseRGBColor" ELSE t

RegisteredEdges == DOMAIN conversion_graph.data

\* the nodes at which a walk can end that starts in `cur` and takes, hop by
\* hop, an edge whose currently registered function is path[i]
RECURSIVE ChainEnds(_, _, _)
ChainEnds(path, i, cur) ==
    IF i > Len(path) THEN cur
    ELSE ChainEnds(path, i + 1,
             {e[2] : e \in {d \in RegisteredEdges :
                               d[1] \in cur /\ conversion_graph.data[d] = path[i]}})

\* the nodes reachable from the set S along registered edges
RECURSIVE ReachSet(_)
ReachSet(S) ==
    LET S2 == S \cup {e[2] : e \in {d \in RegisteredEdges : d[1] \in S}}
    IN  IF S2 = S THEN S ELSE ReachSet(S2)

\* the least number of registered edges leading from the set `frontier` (at
\* distance d) to b, -1 when there is none
RECURSIVE Hops(_, _, _, _)
Hops(frontier, seen, b, d) ==
    IF b \in frontier THEN d
    ELSE LET nxt == {e[2] : e \in {x \in RegisteredEdges : x[1] \in frontier}} \ seen
         IN  IF nxt = {} THEN -1 ELSE Hops(nxt, seen \cup nxt, b, d + 1)

IsLookup == ret.op = "get_conversion_path"

ModuleLoaded == mode = "module" /\ loaded = Len(Registrations)

\* C1: a list returned by get_conversion_path(S, T) follows registered edges
\* from normalise(S) to normalise(T), each function being the one currently
\* registered for its edge; in the module's registry the start_type and
\* target_type attributes of the functions chain from normalise(S) to
\* normalise(T).
C1_PathFollowsRegisteredEdges ==
    (IsLookup /\ ret.kind = "return") =>
        /\ CanonicalType(ret.target) \in ChainEnds(ret.value, 1, {CanonicalType(ret.start)})
        /\ (mode = "module" /\ Len(ret.value) > 0) =>
              /\ func_attrs[ret.value[1]][1] = CanonicalType(ret.start)
              /\ func_attrs[ret.value[Len(ret.value)]][2] = CanonicalType(ret.target)
              /\ \A i \in 1..(Len(ret.value) - 1) :
                     func_attrs[ret.value[i]][2] = func_attrs[ret.value[i + 1]][1]

C1_Witness ==
    \/ /\ IsLookup /\ mode = "manager" /\ ret.start = "sRGBColor"
       /\ ret.kind = "return" /\ Len(ret.value) = 2 /\ ret.value[1] # ret.value[2]
    \/ /\ IsLookup /\ ModuleLoaded /\ ret.start = "AdobeRGBColor"
       /\ ret.kind = "return" /\ Len(ret.value) = 3

\* C2: for S and T that differ after RGB normalisation, get_conversion_path
\* raises UndefinedConversionError(normalise(S), normalise(T)) exactly when no
\* directed path of registered edges leads from normalise(S) to normalise(T)
\* (unregistered types included), and otherwise returns a non-empty list; in
\* the module's registry every lookup from another type to SpectralColor raises.
C2_UndefinedIffNoPath ==
    (IsLookup /\ CanonicalType(ret.start) # CanonicalType(ret.target)) =>
        /\ IF CanonicalType(ret.target) \in ReachSet({CanonicalType(ret.start)})
           THEN ret.kind = "return" /\ Len(ret.value) >= 1
           ELSE /\ ret.kind = "UndefinedConversionError"
                /\ ret.args = <<CanonicalType(ret.start), CanonicalType(ret.target)>>
        /\ (ModuleLoaded /\ ret.target = "SpectralColor") =>
               ret.kind = "UndefinedConversionError"

C2_Witness ==
    \/ /\ IsLookup /\ mode = "manager" /\ ret.kind = "UndefinedConversionError"
       /\ ret.start = "sRGBColor" /\ ret.target = "XYZColor"
       /\ {"BaseRGBColor", "XYZColor"} \subseteq conversion_graph._node
    \/ /\ IsLookup /\ mode = "manager" /\ ret.kind = "UndefinedConversionError"
       /\ ret.start # ret.target /\ ret.target \notin conversion_graph._node

\* C3 (as claimed): get_conversion_path(T, T) returns the empty list for every
\* class T, whatever has been registered.
C3_SelfPathEmpty ==
    (IsLookup /\ ret.start = ret.target) => (ret.kind = "return" /\ ret.value = <<>>)

\* C4: a returned list has the least number of functions among all directed
\* paths of registered edges from normalise(S) to normalise(T).
C4_PathIsShortest ==
    (IsLookup /\ ret.kind = "return") =>
        Len(ret.value) =
            Hops({CanonicalType(ret.start)}, {CanonicalType(ret.start)},
                 CanonicalType(ret.target), 0)

C4_Witness ==
    /\ IsLookup /\ mode = "manager" /\ ret.kind = "return"
    /\ ret.start = "XYZColor" /\ ret.target = "HSVColor" /\ Len(ret.value) = 1
    /\ conversion_graph._succ["XYZColor"] = <<"BaseRGBColor", "HSVColor">>
    /\ <<"BaseRGBColor", "HSVColor">> \in RegisteredEdges

\* C5: a lookup with a concrete RGB class gives the outcome of the lookup with
\* BaseRGBColor in its place, as start type and as target type.
C5_RGBClassesShareNode ==
    IsLookup =>
        LET r == get_conversion_path(conversion_graph,
                     IF ret.start \in {"sRGBColor", "AdobeRGBColor"}
                     THEN "BaseRGBColor" ELSE ret.start,
                     IF ret.target \in {"sRGBColor", "AdobeRGBColor"}
                     THEN "BaseRGBColor" ELSE ret.target)
        IN  /\ ret.kind = r.kind
            /\ ret.value = r.value
            /\ ret.args = r.args

C5_Witness ==
    /\ IsLookup /\ mode = "manager" /\ ret.start = "sRGBColor" /\ ret.target = "HSVColor"
    /\ ret.kind = "return" /\ Len(ret.value) = 1
    /\ <<"sRGBColor", "HSVColor">> \in RegisteredEdges
    /\ conversion_graph.data[<<"sRGBColor", "HSVColor">>] # ret.value[1]

Occurrences(seq, x) == Cardinality({i \in DOMAIN seq : seq[i] = x})

\* C6: registering (S, T, g) when an edge S->T is registered replaces its
\* function by g and changes nothing else: one S->T edge, the same nodes, the
\* same registered_color_spaces, every other edge with its function.
C6_LastRegistrationWins ==
    [][ (/\ ret'.op = "add_type_conversion"
         /\ ret' # ret
         /\ <<ret'.start, ret'.target>> \in RegisteredEdges)
        => /\ conversion_graph'.data[<<ret'.start, ret'.target>>] = ret'.func
           /\ DOMAIN conversion_graph'.data = RegisteredEdges
           /\ \A e \in RegisteredEdges \ {<<ret'.start, ret'.target>>} :
                  conversion_graph'.data[e] = conversion_graph.data[e]
           /\ Occurrences(conversion_graph'._succ[ret'.start], ret'.target) = 1
           /\ Occurrences(conversion_graph'._pred[ret'.target], ret'.start) = 1
           /\ conversion_graph'._succ = conversion_graph._succ
           /\ conversion_graph'._pred = conversion_graph._pred
           /\ conversion_graph'._node = conversion_graph._node
           /\ registered_color_spaces' = registered_color_spaces ]_vars

C6_Witness ==
    /\ ret.op = "add_type_conversion" /\ regs = 3
    /\ Cardinality(RegisteredEdges) = 2
    /\ ret.func = "HSV_to_RGB"
    /\ \E e \in RegisteredEdges : conversion_graph.data[e] = "XYZ_to_RGB"

-----------------------------------------------------------------------------
(* Properties of convert_color *)

IsConvert == call.op = "convert_color"

Returned == IsConvert /\ call.out.kind = "return"

\* C7 (as claimed): whenever convert_color(c, T) returns, the returned color
\* is an instance of exactly the class T.
C7_ReturnsTargetClass ==
    Returned => call.out.new_color.cls = call.target_cs

\* the profile the claimed priority selects: the caller's (an RGB target_cs,
\* else a through_rgb_type it passed), else the remembered one, else sRGB
ClaimedProfile ==
    IF call.target_cs \in RGBClasses THEN call.target_cs
    ELSE IF call.passed # NoneV THEN call.passed
    ELSE IF call.color._through_rgb_type # NoneV THEN call.color._through_rgb_type
    ELSE "sRGBColor"

\* C8 (as claimed): every primitive of a convert_color call receives as
\* target_rgb the caller's profile for this call (an explicitly passed
\* sRGBColor included), else the remembered profile, else sRGB.
C8_CallerProfileFirst ==
    IsConvert =>
        \A i \in DOMAIN call.out.trace : call.out.trace[i].target_rgb = ClaimedProfile

\* C9: when h = convert_color(x, HSLColor, through_rgb_type=AdobeRGBColor) for
\* an XYZ color x, the call convert_color(h, XYZColor) without a profile invokes
\* HSL_to_RGB and RGB_to_XYZ with target_rgb = AdobeRGBColor, the profile the
\* first call converted through, and RGB_to_XYZ works on an AdobeRGBColor.
C9_ProfileMemory ==
    [][ (/\ Returned
         /\ call.color.cls = "XYZColor" /\ call.color._through_rgb_type = NoneV
         /\ call.target_cs = "HSLColor" /\ call.passed = "AdobeRGBColor"
         /\ call'.op = "convert_color"
         /\ call'.color = call.out.new_color
         /\ call'.target_cs = "XYZColor" /\ call'.passed = NoneV)
        => /\ [i \in DOMAIN call.out.trace |->
                  <<call.out.trace[i].func, call.out.trace[i].target_rgb>>]
                = << <<"XYZ_to_RGB", "AdobeRGBColor">>, <<"RGB_to_HSL", "AdobeRGBColor">> >>
           /\ call'.out.kind = "return"
           /\ [i \in DOMAIN call'.out.trace |->
                  <<call'.out.trace[i].func, call'.out.trace[i].target_rgb>>]
                = << <<"HSL_to_RGB", "AdobeRGBColor">>, <<"RGB_to_XYZ", "AdobeRGBColor">> >>
           /\ call'.out.trace[2].cobj = "AdobeRGBColor"
           /\ call'.out.new_color.cls = "XYZColor" ]_vars

C9_Witness ==
    /\ Returned
    /\ call.color = [ColorObject("HSLColor", NoneV, NoneV)
                        EXCEPT !._through_rgb_type = "AdobeRGBColor"]
    /\ call.target_cs = "XYZColor" /\ call.passed = NoneV
    /\ Len(call.out.trace) = 2 /\ call.out.target_rgb = "AdobeRGBColor"
    /\ color.cls = "XYZColor"

\* C10 (as claimed): whenever a convert_color call handed a non-sRGB profile
\* to its primitives as target_rgb, the returned color is tagged with it.
C10_UsedProfileIsRemembered ==
    (Returned /\ call.out.trace # <<>> /\ call.out.target_rgb # "sRGBColor") =>
        call.out.new_color._through_rgb_type = call.out.target_rgb

\* C11 (as claimed): convert_color(c, T) with T on the node of type(c) invokes
\* no primitive, returns a color equal to c and leaves c as it was (remembered
\* through-RGB profile included), whatever through_rgb_type and
\* target_illuminant are.
C11_IdentityLeavesInput ==
    (IsConvert /\ call.target_cs # StrTarget
       /\ CanonicalType(call.color.cls) = CanonicalType(call.target_cs)) =>
        /\ call.out.kind = "return"
        /\ call.out.trace = <<>>
        /\ call.out.new_color = call.color
        /\ call.out.color_after = call.color

Failed == IsConvert /\ call.out.kind # "return"

\* C12: a convert_color call fails exactly when its target is rejected, no
\* path exists or a primitive it invoked raised; a failed call returns no
\* color, leaves the input color as it was, and has invoked each primitive at
\* most once: none when the target is rejected or no path exists, else a prefix
\* of the one looked-up path, all with the same target_rgb and
\* target_illuminant, ending at the primitive whose exception leaves the call.
C12_FailureReturnsNothing ==
    IsConvert =>
        /\ Failed <=> \/ call.target_cs = StrTarget
                      \/ call.out.lookup.kind = "UndefinedConversionError"
                      \/ \E i \in DOMAIN call.out.trace : call.out.trace[i].exc # NoneV
        /\ Failed =>
            /\ call.out.new_color = NoColor
            /\ call.out.color_after = call.color
            /\ color = call.color
            /\ call.target_cs = StrTarget =>
                   (call.out.kind = "ValueError" /\ call.out.lookup = NoLookup
                      /\ call.out.trace = <<>>)
            /\ call.out.lookup.kind = "UndefinedConversionError" =>
                   (call.out.kind = "UndefinedConversionError" /\ call.out.trace = <<>>)
            /\ call.out.lookup.kind = "return" =>
                   /\ Len(call.out.trace) \in 1..Len(call.out.lookup.value)
                   /\ \A i \in DOMAIN call.out.trace :
                          /\ call.out.trace[i].func = call.out.lookup.value[i]
                          /\ call.out.trace[i].target_rgb = call.out.target_rgb
                          /\ call.out.trace[i].target_illuminant = call.target_illuminant
                          /\ call.out.trace[i].exc =
                                 IF i = Len(call.out.trace) THEN call.out.kind ELSE NoneV

C12_Witness ==
    /\ Failed /\ call.out.kind = "ValueError"
    /\ call.color.cls = "LabColor" /\ call.target_cs = "IPTColor"
    /\ Len(call.out.trace) = 2 /\ Len(call.out.lookup.value) = 2
    /\ call.color._through_rgb_type = NoneV

\* C14 (as claimed): convert_color on a color with a None coordinate raises
\* MissingValue, and on a color with a non-numeric coordinate InvalidValue,
\* before any primitive of the path runs.
C14_ValidatedBeforePrimitives ==
    (IsConvert /\ call.target_cs # StrTarget /\ call.color.values # "float") =>
        /\ call.out.kind = IF call.color.values = "None"
                           THEN "MissingValue" ELSE "InvalidValue"
        /\ call.out.trace = <<>>

\* the illuminant claimed for the XYZ color of an RGB -> XYZ conversion
ClaimedIlluminant ==
    IF call.target_illuminant = NoneV THEN "d65"
    ELSE IF call.target_illuminant = "D50" THEN "d50"
    ELSE call.target_illuminant

FromRGBToXYZ ==
    /\ Returned /\ call.target_cs = "XYZColor" /\ call.out.trace # <<>>
    /\ call.out.trace[Len(call.out.trace)].func = "RGB_to_XYZ"

\* C16: the XYZ color convert_color returns from RGB_to_XYZ has the
\* lower-cased target_illuminant as illuminant when one was passed and the RGB
\* space's native illuminant (d65) when none was; its coordinates have been
\* adapted from the native illuminant when the requested one differs from it,
\* and not at all when target_illuminant was omitted.
C16_RGBToXYZIlluminant ==
    FromRGBToXYZ =>
        /\ call.out.new_color.illuminant = ClaimedIlluminant
        /\ call.target_illuminant = NoneV => call.out.new_color.adaptation = <<>>
        /\ ClaimedIlluminant # "d65" =>
               call.out.new_color.adaptation = << <<"d65", ClaimedIlluminant, "2">> >>

C16_Witness ==
    /\ FromRGBToXYZ /\ call.color.cls = "AdobeRGBColor"
    /\ call.target_illuminant = "D50"
    /\ call.out.new_color.illuminant = "d50"
    /\ call.out.new_color.adaptation # <<>>

-----------------------------------------------------------------------------
(* Properties of the color objects *)

IsConvertTo == call.op = "convert_to"

\* the conversion names the claims call known, for the class of the color
KnownTarget ==
    (IF call.cs_to = "XYZ" THEN "xyz" ELSE IF call.cs_to = "Lab" THEN "lab" ELSE call.cs_to)
        \in DOMAIN CONVERSIONS[call.color.cls]

MissingCoordinates == {i \in DOMAIN call.color.values : call.color.values[i].kind = "None"}

NonNumericCoordinates ==
    {i \in DOMAIN call.color.values : call.color.values[i].kind \in {"str", "list"}}

\* C13 (as claimed): convert_to raises InvalidConversion for an unknown target
\* name; otherwise InvalidObserver for an illuminant-carrying color whose
\* observer is not '2' or '10'; otherwise MissingValue for a coordinate that is
\* None and InvalidValue for one that cannot be read as a number; each time no
\* conversion function has run and no color is returned, the color's own space
\* as target included.
C13_ConvertToValidates ==
    IsConvertTo =>
        /\ ~KnownTarget => call.out.kind = "InvalidConversion"
        /\ (KnownTarget /\ call.color.cls \in IlluminantClasses
               /\ call.color.observer \notin {"2", "10"}) =>
               call.out.kind = "InvalidObserver"
        /\ (KnownTarget /\ call.color.observer \in {NoneV, "2", "10"}) =>
               /\ (MissingCoordinates # {} /\ NonNumericCoordinates = {}) =>
                      call.out.kind = "MissingValue"
               /\ (NonNumericCoordinates # {} /\ MissingCoordinates = {}) =>
                      call.out.kind = "InvalidValue"
               /\ (MissingCoordinates # {} /\ NonNumericCoordinates # {}) =>
                      call.out.kind \in {"MissingValue", "InvalidValue"}
        /\ call.out.kind \in {"InvalidConversion", "InvalidObserver", "MissingValue",
                             "InvalidValue"} =>
               (call.out.trace = <<>> /\ call.out.cobj = NoColor)

IsInit == call.op = "__init__"

\* the fixed enumeration of illuminants
FixedIlluminants == {"a", "b", "c", "d50", "d55", "d65", "d75", "e", "f2", "f7", "f11"}

RecognizedIlluminant == call.illuminant \in {"d50", "D65"}

NumericArgs == \A i \in DOMAIN call.args : call.args[i].kind \in {"float", "numstr"}

\* C15 (as claimed): a color a constructor of a CIE-referenced class yields
\* has an illuminant of the fixed enumeration and the observer '2' or '10';
\* an unrecognized illuminant makes the constructor fail with
\* InvalidIlluminant and an unrecognized observer with InvalidObserver, no
\* color object resulting.
C15_ConstructorValidates ==
    (IsInit /\ call.cls \in IlluminantClasses) =>
        /\ call.out.exc = NoneV =>
               /\ call.out.obj.illuminant \in FixedIlluminants
               /\ call.out.obj.observer \in {"2", "10"}
        /\ (NumericArgs /\ ~RecognizedIlluminant /\ call.observer \in {"2", "10"}) =>
               (call.out.exc = "InvalidIlluminant" /\ call.out.obj = NoColor)
        /\ (NumericArgs /\ RecognizedIlluminant /\ call.observer = "90") =>
               (call.out.exc = "InvalidObserver" /\ call.out.obj = NoColor)

IsAdaptation == call.op = "apply_adaptation"

LowerCasedTarget == IF call.target_illuminant = "D65" THEN "d65" ELSE call.target_illuminant

\* C17 (as claimed): apply_adaptation(target) leaves an XYZ color built by the
\* constructor with the lower-cased target as illuminant and its observer as
\* it was; the coordinates are untouched when the illuminant was the target
\* already and are replaced by the adapted ones when it was another.
C17_AdaptationSetsIlluminant ==
    IsAdaptation =>
        /\ color.illuminant = LowerCasedTarget
        /\ color.observer = call.color.observer
        /\ call.color.illuminant = call.target_illuminant =>
               color.adaptation = call.color.adaptation
        /\ call.color.illuminant # LowerCasedTarget =>
               /\ Len(color.adaptation) = Len(call.color.adaptation) + 1
               /\ SubSeq(color.adaptation, 1, Len(call.color.adaptation))
                    = call.color.adaptation
               /\ SubSeq(color.adaptation[Len(color.adaptation)], 1, 2)
                    = <<call.color.illuminant, LowerCasedTarget>>

IsGetHex == call.op = "get_rgb_hex"

\* C18 (as claimed): get_rgb_hex returns, for every RGB color, channels below
\* 0 or above 1 included, a string of 7 characters: '#' and six lowercase
\* hexadecimal digits.
C18_HexHasSevenCharacters ==
    IsGetHex =>
        /\ Len(call.out) = 7
        /\ call.out[1] = "#"
        /\ \A i \in 2..Len(call.out) :
               call.out[i] \in {"0", "1", "2", "3", "4", "5", "6", "7", "8", "9",
                                "a", "b", "c", "d", "e", "f"}

IsFromHex == call.op = "new_from_rgb_hex"

SixHexDigits(str) == Len(str) = 6 /\ \A i \in 1..6 : str[i] \in DOMAIN DigitValue

WellFormedHex ==
    \/ SixHexDigits(call.hex_str)
    \/ call.hex_str # <<>> /\ call.hex_str[1] = "#" /\ SixHexDigits(Tail(call.hex_str))

\* C19 (as claimed): new_from_rgb_hex accepts exactly the strings of an
\* optional '#' and six hexadecimal digits of either case, the channels being
\* the three byte values over 255, and rejects every other string with
\* ValueError, producing no color.
C19_HexFormatChecked ==
    IsFromHex =>
        IF WellFormedHex
        THEN /\ call.out.exc = NoneV
             /\ LET digits == IF call.hex_str[1] = "#" THEN Tail(call.hex_str)
                               ELSE call.hex_str
                IN  \A i \in 1..3 :
                        call.out.obj.values[i].num =
                            2 * (16 * DigitValue[digits[2 * i - 1]] + DigitValue[digits[2 * i]])
        ELSE call.out.exc = "ValueError" /\ call.out.obj = NoColor

IsDeltaE == call.op \in DeltaEFunctions

\* C20 (as claimed): a scalar Delta E function called with a LabColor and a
\* color of another space fails with ValueError and returns no number.
C20_NonLabRejected ==
    (IsDeltaE /\ {call.color1.cls, call.color2.cls} # {"LabColor"}
       /\ "LabColor" \in {call.color1.cls, call.color2.cls}) =>
        call.out.kind = "ValueError"

-----------------------------------------------------------------------------
(* Properties of the shipped registry *)

\* the color spaces the decorators of color_conversions.py connect both ways
ConnectedTypes ==
    {"XYZColor", "xyYColor", "LabColor", "LCHabColor", "LuvColor", "LCHuvColor",
     "BaseRGBColor", "HSLColor", "HSVColor", "CMYColor", "CMYKColor", "IPTColor"}

\* C25: in the registry the module's decorators build, a lookup between two
\* distinct types of XYZ, xyY, Lab, LCHab, Luv, LCHuv, BaseRGB, HSL, HSV, CMY,
\* CMYK, IPT returns a path, a lookup from SpectralColor to each of them
\* returns a path, and no registered edge leads into SpectralColor.
C25_RegistryConnected ==
    ModuleLoaded =>
        /\ (/\ IsLookup
            /\ ret.start \in ConnectedTypes \cup {"SpectralColor"}
            /\ ret.target \in ConnectedTypes
            /\ ret.start # ret.target) =>
               (ret.kind = "return" /\ Len(ret.value) >= 1)
        /\ \A e \in RegisteredEdges : e[2] # "SpectralColor"

C25_Witness ==
    /\ ModuleLoaded /\ IsLookup
    /\ ret.start = "IPTColor" /\ ret.target = "CMYKColor"
    /\ ret.kind = "return" /\ Len(ret.value) = 4

\* C26: for every target listed in _RGB_CONVERSION_DICT_TEMPLATE the list
\* get_conversion_path(BaseRGBColor, target) returns from the module's registry
\* is the template's list: the same functions in the same order.
C26_TemplateMatchesResolver ==
    (/\ ModuleLoaded /\ IsLookup
     /\ ret.start = "BaseRGBColor"
     /\ ret.target \in DOMAIN _RGB_CONVERSION_DICT_TEMPLATE) =>
        (ret.kind = "return" /\ ret.value = _RGB_CONVERSION_DICT_TEMPLATE[ret.target])

C26_Witness ==
    /\ ModuleLoaded /\ IsLookup
    /\ ret.start = "BaseRGBColor" /\ ret.target = "LCHuvColor"
    /\ ret.value = <<"RGB_to_XYZ", "XYZ_to_Luv", "Luv_to_LCHuv">>

-----------------------------------------------------------------------------
(* Properties of the illuminant along a conversion *)

\* the illuminant and observer an XYZ color has when nothing has adapted it on
\* the way from the input of the call: those of an input that carries them,
\* and for an input on the RGB side those RGB_to_XYZ gives
UnadaptedXYZ ==
    IF call.color.cls \in IlluminantClasses
    THEN <<call.color.illuminant, call.color.observer>>
    ELSE <<ClaimedIlluminant, "2">>

\* C24: a convert_color call to IPTColor on a color of another space with
\* numeric coordinates ends in XYZ_to_IPT, which receives the XYZ color with
\* the illuminant and observer no step has adapted; the call returns an IPT
\* color exactly when these are d65 and 2, and raises ValueError otherwise.
C24_IPTNeedsD65 ==
    (/\ IsConvert /\ call.target_cs = "IPTColor"
     /\ call.color.cls # "IPTColor" /\ call.color.values = "float") =>
        LET n == Len(call.out.trace)
        IN  /\ n >= 1
            /\ call.out.trace[n].func = "XYZ_to_IPT"
            /\ call.out.trace[n].cobj = "XYZColor"
            /\ <<call.out.trace[n].illuminant, call.out.trace[n].observer>> = UnadaptedXYZ
            /\ IF UnadaptedXYZ = <<"d65", "2">>
               THEN Returned /\ call.out.new_color.cls = "IPTColor"
               ELSE call.out.kind = "ValueError" /\ call.out.trace[n].exc = "ValueError"

C24_Witness ==
    /\ IsConvert /\ call.target_cs = "IPTColor" /\ call.color.cls = "AdobeRGBColor"
    /\ call.target_illuminant = "D50" /\ call.out.kind = "ValueError"
    /\ Len(call.out.trace) = 2

\* the primitives between two spaces that carry illuminant and observer
CarryingPrimitives ==
    {"Spectral_to_XYZ", "Lab_to_XYZ", "XYZ_to_Lab", "Luv_to_XYZ", "XYZ_to_Luv",
     "xyY_to_XYZ", "XYZ_to_xyY", "Lab_to_LCHab", "LCHab_to_Lab", "Luv_to_LCHuv",
     "LCHuv_to_Luv"}

\* C28: a convert_color call between two spaces that carry an illuminant
\* invokes only primitives between such spaces, each receives a color with the
\* illuminant and observer of the call's input, and the color returned has
\* them too, whatever target_illuminant was passed.
C28_IlluminantPreserved ==
    (/\ IsConvert /\ call.color.cls \in IlluminantClasses
     /\ call.target_cs \in IlluminantClasses) =>
        /\ \A i \in DOMAIN call.out.trace :
               /\ call.out.trace[i].func \in CarryingPrimitives
               /\ call.out.trace[i].illuminant = call.color.illuminant
               /\ call.out.trace[i].observer = call.color.observer
        /\ Returned =>
               /\ call.out.new_color.illuminant = call.color.illuminant
               /\ call.out.new_color.observer = call.color.observer

C28_Witness ==
    /\ Returned /\ call.color.cls = "LCHuvColor" /\ call.target_cs = "LCHabColor"
    /\ call.color.illuminant = "d65" /\ call.color.observer = "10"
    /\ call.target_illuminant = "D50" /\ Len(call.out.trace) = 4
    /\ call.out.new_color.observer = "10"

-----------------------------------------------------------------------------
(* Properties of the CONVERSIONS tables *)

\* the color class a key of a CONVERSIONS table names
KeySpace ==
    [spectral |-> "SpectralColor", xyz |-> "XYZColor", xyy |-> "xyYColor",
     lab |-> "LabColor", lch |-> "LCHabColor", lchab |-> "LCHabColor",
     lchuv |-> "LCHuvColor", luv |-> "LuvColor", rgb |-> "RGBColor", hsl |-> "HSLColor",
     hsv |-> "HSVColor", cmy |-> "CMYColor", cmyk |-> "CMYKColor"]

\* C27 (as claimed): a convert_to call that passes validation runs a path of
\* its class's CONVERSIONS table in which every function receives a color of
\* the space it converts from, and returns a color of the space the key
\* names.
C27_TablesTypeCorrect ==
    (IsConvertTo /\ call.out.kind \in {"return", "AttributeError"}) =>
        /\ call.out.kind = "return"
        /\ call.out.cobj.cls = KeySpace[lower(call.cs_to)]

-----------------------------------------------------------------------------
(* Properties of the conversion functions on coordinates *)

\* the caller's last two calls were f and then g, and both returned
AppliedLast(f, g) ==
    /\ call.op = "chain"
    /\ call.exc = NoneV
    /\ Len(call.funcs) >= 2
    /\ call.funcs[Len(call.funcs) - 1] = f
    /\ call.funcs[Len(call.funcs)] = g

\* the color the last two calls started from, and the one they ended with
Before == call.colors[Len(call.funcs) - 1]

After == call.colors[Len(call.funcs) + 1]

InUnitRange(values) == \A i \in DOMAIN values : 0 <= values[i] /\ values[i] <= Unit

\* equality of floats up to rounding: 1e-3
Tolerance == Unit \div 1000

Close(u, v) == Len(u) = Len(v) /\ \A i \in DOMAIN u : Abs(u[i] - v[i]) <= Tolerance

Reproduces(f, g) ==
    (AppliedLast(f, g) /\ InUnitRange(Before.values)) => Close(Before.values, After.values)

\* a CMYK color as CMY_to_CMYK produces it: the smallest of c, m, y is 0, and
\* all three are 0 when k is 1
NormalForm(values) ==
    /\ Min(values[1], Min(values[2], values[3])) = 0
    /\ values[4] = Unit => Max(values[1], Max(values[2], values[3])) = 0

\* C23 (as claimed): for coordinates in [0, 1], CMY_to_RGB(RGB_to_CMY(c)),
\* RGB_to_CMY(CMY_to_RGB(c)), CMYK_to_CMY(CMY_to_CMYK(c)) and
\* CMY_to_CMYK(CMYK_to_CMY(k)) each give back the coordinates they started from.
C23_RoundTrips ==
    /\ Reproduces("RGB_to_CMY", "CMY_to_RGB")
    /\ Reproduces("CMY_to_RGB", "RGB_to_CMY")
    /\ Reproduces("CMY_to_CMYK", "CMYK_to_CMY")
    /\ Reproduces("CMYK_to_CMY", "CMY_to_CMYK")

\* C23 (amended): for coordinates in [0, 1], the first three round trips give
\* back the coordinates they started from, and CMY_to_CMYK(CMYK_to_CMY(k)) gives
\* back k when k is in the normal form of CMY_to_CMYK; for any k it gives the
\* normal form, which converts to the same CMY color as k.
C23_RoundTripsNormalForm ==
    /\ Reproduces("RGB_to_CMY", "CMY_to_RGB")
    /\ Reproduces("CMY_to_RGB", "RGB_to_CMY")
    /\ Reproduces("CMY_to_CMYK", "CMYK_to_CMY")
    /\ (AppliedLast("CMYK_to_CMY", "CMY_to_CMYK") /\ InUnitRange(Before.values)) =>
           /\ NormalForm(Before.values) => Close(Before.values, After.values)
           /\ NormalForm(After.values)
           /\ Close(CMYK_to_CMY(After).obj.values, CMYK_to_CMY(Before).obj.values)

C23_Witness ==
    /\ AppliedLast("CMYK_to_CMY", "CMY_to_CMYK")
    /\ Before.values = <<5000, 0, Unit, 5000>>
    /\ After.values = Before.values

\* the caller's last call was f; Arg is the color it was applied to and
\* Result the color it returned
LastCall(f) ==
    /\ call.op = "chain"
    /\ Len(call.funcs) >= 1
    /\ call.funcs[Len(call.funcs)] = f

Arg == call.colors[Len(call.funcs)]

Result == call.colors[Len(call.funcs) + 1]

ZeroLightnessRoutes ==
    { <<"LCHuv_to_Luv", "Luv_to_XYZ", "XYZ_to_RGB">>,
      <<"LCHab_to_Lab", "Lab_to_XYZ", "XYZ_to_RGB">> }

\* the caller started from an LCH color of lightness 0 and is on the way to RGB
OnZeroLightnessRoute ==
    /\ call.op = "chain"
    /\ call.colors[1].cls \in {"LCHuvColor", "LCHabColor"}
    /\ call.colors[1].values[1] = 0
    /\ \E route \in ZeroLightnessRoutes :
           /\ Len(call.funcs) <= Len(route)
           /\ \A i \in DOMAIN call.funcs : call.funcs[i] = route[i]

ReachedRGB == OnZeroLightnessRoute /\ call.funcs \in ZeroLightnessRoutes

\* no division by zero on the way, the short circuit of Luv_to_XYZ, and the
\* zero chromaticity of XYZ_to_xyY and XYZ_to_Luv when their denominator is 0
\* (XYZ_to_Luv then gives u = 13 L (0 - ref_U) and v = 13 L (0 - ref_V))
NoZeroDivision ==
    /\ OnZeroLightnessRoute => call.exc = NoneV
    /\ (LastCall("Luv_to_XYZ") /\ Arg.values[1] <= 0) =>
           (call.exc = NoneV /\ Result.values = <<0, 0, 0>>)
    /\ (LastCall("XYZ_to_xyY") /\ Arg.values[1] + Arg.values[2] + Arg.values[3] = 0) =>
           (call.exc = NoneV /\ Result.values[1] = 0 /\ Result.values[2] = 0)
    /\ (LastCall("XYZ_to_Luv") /\ Arg.values[1] + 15 * Arg.values[2] + 3 * Arg.values[3] = 0) =>
           /\ call.exc = NoneV
           /\ LET illum == get_illuminant_xyz(Arg)
                  white == illum.X + 15 * illum.Y + 3 * illum.Z
              IN  /\ Result.values[2] = Mul(13 * Result.values[1], 0 - Div(4 * illum.X, white))
                  /\ Result.values[3] = Mul(13 * Result.values[1], 0 - Div(9 * illum.Y, white))

\* C21 (as claimed): converting a color of lightness 0 along LCHuv -> Luv ->
\* XYZ -> RGB or LCHab -> Lab -> XYZ -> RGB never raises ZeroDivisionError:
\* Luv_to_XYZ returns XYZ (0, 0, 0) when luv_l <= 0, XYZ_to_Luv and XYZ_to_xyY
\* return zero chromaticity when their denominator is 0, and the final RGB is
\* (0, 0, 0).
C21_ZeroLightnessIsBlack ==
    /\ NoZeroDivision
    /\ ReachedRGB => Result.values = <<0, 0, 0>>

\* C21 (amended): the same without the last part for every color; the final
\* RGB is (0, 0, 0) on the LCHuv route, and on the LCHab route when the chroma
\* is 0 as well.
C21_ZeroLightnessNoDivision ==
    /\ NoZeroDivision
    /\ (ReachedRGB /\ (call.colors[1].cls = "LCHuvColor" \/ call.colors[1].values[2] = 0)) =>
           Result.values = <<0, 0, 0>>

C21_Witness ==
    /\ ReachedRGB
    /\ call.colors[1].cls = "LCHuvColor"
    /\ call.colors[1].values[2] > 0
    /\ call.colors[1].illuminant = "d50"
    /\ Result.values = <<0, 0, 0>>

\* the hue of the color the last call returned
HueOfResult ==
    IF Result.cls \in {"HSLColor", "HSVColor"} THEN Result.values[1] ELSE Result.values[3]

\* the argument of the last call lies on the positive a (u, red) axis or is
\* achromatic
OnPositiveAxis ==
    IF Arg.cls \in RGBClasses
    THEN Arg.values[2] = Arg.values[3] /\ Arg.values[1] >= Arg.values[2]
    ELSE Arg.values[3] = 0 /\ Arg.values[2] >= 0

\* C29 (as claimed): every hue angle produced by RGB_to_HSL, RGB_to_HSV,
\* Lab_to_LCHab or Luv_to_LCHuv lies in [0, 360) degrees, and is 0 for a color
\* on the positive a (u, red) axis and for achromatic input.
C29_HueInRange ==
    \A f \in {"RGB_to_HSL", "RGB_to_HSV", "Lab_to_LCHab", "Luv_to_LCHuv"} :
        (LastCall(f) /\ call.exc = NoneV) =>
            /\ 0 <= HueOfResult /\ HueOfResult < 360 * Unit
            /\ OnPositiveAxis => HueOfResult = 0

\* both functions have been applied to the same pair of colors
ComparedBothWays ==
    call.op = "delta_e_cmc" /\ call.scalar # <<>> /\ call.matrix # <<>>

SameT(t1, t2) ==
    /\ t1.base = t2.base
    /\ t1.amplitude = t2.amplitude
    /\ t1.angle % (360 * Unit) = t2.angle % (360 * Unit)

\* C30 (as claimed): for the same reference color and the same comparison
\* color, the scalar delta_e_cmc and the matrix delta_e_cmc on a one-row matrix
\* select the same T branch and the same S_L branch, and so compute Delta E
\* from the same terms, also for a reference color whose atan2 angle is
\* negative.
C30_ScalarMatchesMatrix ==
    ComparedBothWays =>
        /\ SameT(call.scalar[1].T, call.matrix[1].T)
        /\ call.scalar[1].S_L = call.matrix[1].S_L
        /\ [call.scalar[1] EXCEPT !.T = 0, !.H_1 = 0]
             = [call.matrix[1] EXCEPT !.T = 0, !.H_1 = 0]

\* the Hunt constructor has been called
IsHunt == call.op = "Hunt"

\* C22 (as claimed): the Hunt constructor raises ValueError when exactly one
\* of s and s_w is supplied; when both are None they default to y and y_w, and
\* when both are supplied they are used as given.
C22_HuntScotopicPair ==
    IsHunt =>
        /\ ((call.s = None) # (call.s_w = None)) <=> call.out.exc = "ValueError"
        /\ (call.s = None /\ call.s_w = None) =>
               (call.out.s = call.y /\ call.out.s_w = call.y_w)
        /\ (call.s # None /\ call.s_w # None) =>
               (call.out.s = call.s /\ call.out.s_w = call.s_w)

====
